---- MODULE Spec2Model ----
(***************************************************************************)
(* State-machine model of the sign detection components:                   *)
(*   SimplifiedHandFeatures.tsx  - the frame pipeline, the gesture history  *)
(*                                 (stabilizer) and the letter accumulator *)
(*   SignLanguageDetector.tsx    - the sign history, the vocabulary effect  *)
(*                                 and the detection loop                  *)
(* Fractions of the source are kept as integers: confidences and HSV       *)
(* thresholds in hundredths, the stability cutoff in tenths, times in ms.  *)
(* The components run under React 18 (createRoot).  A callback of a timer, *)
(* an interval, a promise or an animation frame writes refs and starts     *)
(* timers at once and queues its state updates; React renders them in a    *)
(* later task and runs the effects of that render in a task after it.  A   *)
(* click renders inside the click: that render applies the updates of the  *)
(* click only, and its effects run before the click returns.  Before any   *)
(* render React runs the effects that are still pending; the state updates *)
(* of an effect are queued like those of a timer.  The state variables     *)
(* hold what the last render has shown.                                    *)
(***************************************************************************)
EXTENDS Integers, Sequences, FiniteSets, TLC

VARIABLES
    \* ---- SimplifiedHandFeatures component ----
    gestureHistory,   \* gestureHistory.current: the last labels pushed
    stableGesture,    \* what the last getStableGesture() call returned (Null: none)
    switches,         \* how many times the pushed label changed (bounded input)
    isProcessing,     \* useState(false): the processing interval is running
    thresholds,       \* useState: the detection thresholds
    currentGesture,   \* useState<HandGesture | null>, as last rendered
    detectedLetters,  \* useState<string[]>: the accepted letters, as last rendered
    currentWord,      \* useState<string>: the joined letters, as last rendered
    letterCooldown,   \* useState(false): the cooldown indicator, as last rendered
    queued,           \* state updates queued by callbacks and not rendered yet
    unrendered,       \* interval callbacks run since the last render (bounded input)
    wordEffect,       \* the [detectedLetters] effect of the last render has not run yet
    closureCooldown,  \* letterCooldown as captured by the interval's processFrame
    lastLetterTime,   \* lastLetterTime.current
    timers,           \* deadlines of the pending setTimeout(setLetterCooldown(false))
    now,              \* Date.now()
    lastOffer,        \* the last addLetterToWord call and its logged outcome
    frames,           \* interval callbacks run so far (bounded input)
    sinceNoHand,      \* labels pushed since the last no-hand frame or clear
    lastFrame,        \* what the image stages gave the last interval callback
    canvas,           \* canvas.width and canvas.height of the frame
    skinMask,         \* the mask of the skin test (line 211), row-major
    denoisedMask,     \* what applySpatialFilter returned (line 235)
    handRegion,       \* what findLargestBlob returned (line 238)
    frameHull,        \* what calculateSimplifiedHull returned (line 412)
    handFeatures,     \* what calculateHandFeatures returned (line 243)
    frameGesture,     \* what identifyGesture returned (line 246)
    imageStage,       \* the image stage of processFrame that has run last
    \* ---- SignLanguageDetector component ----
    signHistory,      \* useState<string[]>, as last rendered
    detectedWord,     \* useState<string>: the displayed word, as last rendered
    detectedPhrase,   \* useState<string>: the displayed phrase, as last rendered
    signQueued,       \* state updates queued by callbacks and not rendered yet
    emitted,          \* the toasts of the last run of the [signHistory] effect
    signEffect,       \* the [signHistory] effect of the last render has not run yet
    signOps,          \* sign history updates so far (bounded input)
    handposeModel,    \* handposeModel.current is set (FALSE: null)
    modelReady,       \* useState(false), as last rendered
    webcamReady,      \* useState(false), as last rendered
    requestAnimationRef, \* requestAnimationRef.current (0: null)
    rafQueue,         \* ids of the animation frame callbacks requested and pending
    rafIds,           \* animation frame ids handed out so far
    awaiting,         \* detectHands invocations suspended in await estimateHands
    detectedSign,     \* useState<string>, as last rendered
    lastSignRef,      \* lastSignRef.current
    stableCountRef,   \* stableCountRef.current
    startEffect,      \* the start effect of the last render has not run yet
    startTimer,       \* the start effect's test-letter timeouts: idle, H, I, done
    restartTimers,    \* pending test-letter timeouts of restartDetection
    mounted,          \* the component is mounted (its cleanup has not run)
    limits            \* the bounds of the run: frames requested, history updates

stabVars == <<gestureHistory, stableGesture>>
accVars == <<lastLetterTime, timers, lastOffer>>
stateVars == <<currentGesture, detectedLetters, currentWord, letterCooldown>>
renderVars == <<stateVars, queued, unrendered, wordEffect>>
uiVars == <<isProcessing, thresholds, closureCooldown, frames, sinceNoHand,
           lastFrame>>
coreVars == <<stabVars, switches, accVars, renderVars, now, uiVars>>
imgVars == <<canvas, skinMask, denoisedMask, handRegion, frameHull,
             handFeatures,
             frameGesture, imageStage>>
shfVars == <<coreVars, imgVars>>
vocabVars == <<signHistory, detectedWord, detectedPhrase, emitted, signEffect,
              signOps>>
loopVars == <<handposeModel, modelReady, webcamReady, requestAnimationRef,
              rafQueue, rafIds, awaiting, detectedSign, lastSignRef, stableCountRef,
              startEffect, startTimer, restartTimers, mounted>>
detVars == <<vocabVars, signQueued, loopVars, limits>>
vars == <<shfVars, detVars>>

\* JavaScript null / "no gesture"
Null == "null"

(***************************************************************************)
(* TemporalStabilizer: SimplifiedHandFeatures.tsx, lines 44-47, 279-310    *)
(***************************************************************************)
maxHistoryLength == 10
minHistoryLength == 5
\* stabilityCutoff = 0.6, in tenths
stabilityCutoffTenths == 6

\* Labels fed to the stabilizer when it is driven on its own.
StabilizerGestures ==
    {[name |-> "A", confidence |-> 70], [name |-> "B", confidence |-> 85],
     [name |-> "D", confidence |-> 60], [name |-> "I LOVE YOU", confidence |-> 80],
     [name |-> "?", confidence |-> 50]}
StabilizerLabels == {gesture.name : gesture \in StabilizerGestures}
\* Bound: label changes between consecutive pushes in one run.
MaxSwitches == 2

\* mutant: the oldest label is dropped only above the capacity
updateGestureHistory_LateShift(history, gestureName) ==
    IF Len(history) > maxHistoryLength
    THEN Append(Tail(history), gestureName)
    ELSE Append(history, gestureName)

\* if (length >= maxHistoryLength) shift(); push(gestureName)
updateGestureHistory(history, gestureName) ==
    IF Len(history) >= maxHistoryLength
    THEN Append(Tail(history), gestureName)
    ELSE Append(history, gestureName)

\* counts[g]: occurrences of g in the history
CountOf(history, g) == Cardinality({i \in 1..Len(history) : history[i] = g})

\* Object.entries(counts): the distinct labels in order of first occurrence
RECURSIVE CountKeys(_)
CountKeys(history) ==
    IF history = <<>> THEN <<>>
    ELSE LET front == SubSeq(history, 1, Len(history) - 1)
             last  == history[Len(history)]
             keys  == CountKeys(front)
         IN IF \E i \in 1..Len(keys) : keys[i] = last THEN keys
            ELSE Append(keys, last)

\* the forEach over the entries: keep the first entry with a strictly larger count
RECURSIVE MostCommon(_, _, _)
MostCommon(history, keys, best) ==
    IF keys = <<>> THEN best
    ELSE LET count == CountOf(history, Head(keys))
         IN IF count > best.maxCount
            THEN MostCommon(history, Tail(keys),
                            [maxCount |-> count, stableGesture |-> Head(keys)])
            ELSE MostCommon(history, Tail(keys), best)

\* mutant: the minimum-length gate admits histories of 4
getStableGesture_ShortGate(history) ==
    IF Len(history) < minHistoryLength - 1 THEN Null
    ELSE LET best == MostCommon(history, CountKeys(history),
                                [maxCount |-> 0, stableGesture |-> Null])
         IN IF best.maxCount * 10 >= stabilityCutoffTenths * Len(history)
            THEN best.stableGesture ELSE Null

\* mutant: the share has to exceed the cutoff
getStableGesture_StrictCutoff(history) ==
    IF Len(history) < minHistoryLength THEN Null
    ELSE LET best == MostCommon(history, CountKeys(history),
                                [maxCount |-> 0, stableGesture |-> Null])
         IN IF best.maxCount * 10 > stabilityCutoffTenths * Len(history)
            THEN best.stableGesture ELSE Null

\* mutant: half of the history is enough
getStableGesture_HalfCutoff(history) ==
    IF Len(history) < minHistoryLength THEN Null
    ELSE LET best == MostCommon(history, CountKeys(history),
                                [maxCount |-> 0, stableGesture |-> Null])
         IN IF best.maxCount * 10 >= (stabilityCutoffTenths - 1) * Len(history)
            THEN best.stableGesture ELSE Null

\* getStableGesture(): null below 5 entries, else the mode if its share >= 0.6
getStableGesture(history) ==
    IF Len(history) < minHistoryLength THEN Null
    ELSE LET best == MostCommon(history, CountKeys(history),
                                [maxCount |-> 0, stableGesture |-> Null])
         IN IF best.maxCount * 10 >= stabilityCutoffTenths * Len(history)
            THEN best.stableGesture ELSE Null

(***************************************************************************)
(* Thresholds and presets: SimplifiedHandFeatures.tsx, lines 37-42,        *)
(* 613-647.  HSV bounds and gestureThreshold in hundredths.                *)
(***************************************************************************)
NormalThresholds ==
    [skinLowerHSV |-> <<0, 15, 40>>, skinUpperHSV |-> <<10, 70, 100>>,
     blobMinSize |-> 1500, gestureThreshold |-> 70]

BrightThresholds ==
    [skinLowerHSV |-> <<0, 10, 50>>, skinUpperHSV |-> <<10, 50, 100>>,
     blobMinSize |-> 1500, gestureThreshold |-> 70]

DimThresholds ==
    [skinLowerHSV |-> <<0, 20, 30>>, skinUpperHSV |-> <<15, 80, 90>>,
     blobMinSize |-> 1200, gestureThreshold |-> 60]

(***************************************************************************)
(* GestureClassifier: identifyGesture, lines 508-547.                      *)
(* aspectRatio = width / height is a JavaScript number: Infinity when      *)
(* height = 0 < width, NaN when both are 0; every comparison with NaN is   *)
(* false.  The comparisons are done on the integers width and height; the  *)
(* features of an empty blob have a negative width and height.             *)
(***************************************************************************)
NullGesture == [name |-> Null, confidence |-> 0]

\* mutant: the comparison admits equality
AspectBelow_Inclusive(f, num) ==
    IF f.height = 0 THEN f.width < 0
    ELSE IF f.height > 0 THEN 10 * f.width <= num * f.height
    ELSE 10 * f.width >= num * f.height

\* aspectRatio < num/10, where aspectRatio = width / height is -Infinity,
\* NaN or Infinity for height 0
AspectBelow(f, num) ==
    IF f.height = 0 THEN f.width < 0
    ELSE IF f.height > 0 THEN 10 * f.width < num * f.height
    ELSE 10 * f.width > num * f.height

\* aspectRatio > num/10
AspectAbove(f, num) ==
    IF f.height = 0 THEN f.width > 0
    ELSE IF f.height > 0 THEN 10 * f.width > num * f.height
    ELSE 10 * f.width < num * f.height

identifyGesture(f) ==
    IF f.fingerCount = 0 THEN NullGesture
    ELSE IF f.fingerCount = 1
    THEN IF AspectBelow(f, 8) THEN [name |-> "A", confidence |-> 70]
         ELSE [name |-> "D", confidence |-> 60]
    ELSE IF f.fingerCount = 2
    THEN IF AspectAbove(f, 12) THEN [name |-> "L", confidence |-> 80]
         ELSE IF AspectBelow(f, 9) THEN [name |-> "K", confidence |-> 70]
         ELSE [name |-> "V", confidence |-> 75]
    ELSE IF f.fingerCount = 3 THEN [name |-> "W", confidence |-> 80]
    ELSE IF f.fingerCount = 4 THEN [name |-> "B", confidence |-> 85]
    ELSE IF f.fingerCount = 5
    THEN IF 10 * f.width > 12 * f.height THEN [name |-> "Y", confidence |-> 90]
         ELSE [name |-> "I LOVE YOU", confidence |-> 80]
    ELSE [name |-> "?", confidence |-> 50]

(***************************************************************************)
(* The image stages of processFrame: applySpatialFilter (lines 314-333),   *)
(* findLargestBlob (336-393), calculateHandFeatures (396-425),             *)
(* calculateSimplifiedHull (428-460), estimateFingerCount (463-505).       *)
(* A mask is the row-major sequence of its cells; the cell of pixel index  *)
(* idx = y * width + x is mask[idx + 1].  A centroid coordinate sum / size *)
(* is kept as the pair <<sum, size>>; distances and angles are compared    *)
(* exactly, on integers scaled by size.                                    *)
(***************************************************************************)
Features(fc, w, h) == [fingerCount |-> fc, width |-> w, height |-> h]
NoFeatures == Features(0, 0, 0)

\* what processFrame has when the video is not ready: it returns at once
\* (lines 182-187, 273-275)
NoFrame == [ready |-> FALSE, size |-> 0, features |-> NoFeatures]

RECURSIVE SumSeq(_)
SumSeq(seq) ==
    IF seq = <<>> THEN 0
    ELSE IF Len(seq) = 1 THEN seq[1]
    ELSE LET half == Len(seq) \div 2
         IN SumSeq(SubSeq(seq, 1, half)) + SumSeq(SubSeq(seq, half + 1, Len(seq)))

\* the sum over dy, dx in -1..1 of mask[(y + dy) * width + (x + dx)]
WindowSum(mask, width, x, y) ==
    SumSeq([k \in 1..9 |->
              mask[(y + ((k - 1) \div 3) - 1) * width + (x + ((k - 1) % 3) - 1) + 1]])

\* mutant: a pixel needs more than 5 of the 9 cells
IsMajority_Strict(sum) == sum > 5

\* sum >= 5 (line 328)
IsMajority(sum) == sum >= 5

\* applySpatialFilter(mask, width, height): the output starts as zeros and is
\* written for 1 <= x < width - 1, 1 <= y < height - 1
applySpatialFilter(mask, width, height) ==
    [i \in 1..(width * height) |->
        LET x == (i - 1) % width
            y == (i - 1) \div width
        IN IF x >= 1 /\ x < width - 1 /\ y >= 1 /\ y < height - 1
           THEN IF IsMajority(WindowSum(mask, width, x, y)) THEN 1 ELSE 0
           ELSE 0]

\* { pixels: [], size: 0, centroid: { x: 0, y: 0 } } (line 338)
EmptyBlob ==
    [pixels |-> <<>>, size |-> 0, centroid |-> [x |-> <<0, 1>>, y |-> <<0, 1>>]]

\* mutant: the neighbour above is not visited
Neighbors_NoUp(cx, cy) == <<<<cx + 1, cy>>, <<cx - 1, cy>>, <<cx, cy + 1>>>>

\* [cx+1, cy], [cx-1, cy], [cx, cy+1], [cx, cy-1] (lines 363-365)
Neighbors(cx, cy) ==
    <<<<cx + 1, cy>>, <<cx - 1, cy>>, <<cx, cy + 1>>, <<cx, cy - 1>>>>

\* The loop over the neighbours (lines 367-375): st = [queue, visited], where
\* visited is the set of the pixel indices marked in the array `visited`.
\* The four neighbours are different pixels, so each is tested against the
\* same marks; those that pass are marked and enqueued in the order of the
\* list.
VisitNeighbors(mask, width, height, nbrs, st) ==
    LET IsNew(n) == /\ n[1] >= 0 /\ n[1] < width /\ n[2] >= 0 /\ n[2] < height
                    /\ mask[n[2] * width + n[1] + 1] = 1
                    /\ (n[2] * width + n[1]) \notin st.visited
        new == SelectSeq(nbrs, IsNew)
    IN [queue |-> st.queue \o new,
        visited |-> st.visited
                       \cup {new[k][2] * width + new[k][1] : k \in 1..Len(new)}]

\* One turn of the while loop (lines 353-376): st = [queue, visited, blob],
\* with blob = [pixels, size, sumX, sumY].  The turn shifts the first pixel
\* off the queue, adds it to the blob and visits its neighbours; the loop
\* takes no turn when the queue is empty.
Dequeue(mask, width, height, st) ==
    IF st.queue = <<>> THEN st
    ELSE LET cx == Head(st.queue)[1]
             cy == Head(st.queue)[2]
             cIdx == cy * width + cx
             seen == VisitNeighbors(mask, width, height, Neighbors(cx, cy),
                                    [queue |-> Tail(st.queue),
                                     visited |-> st.visited])
         IN [queue |-> seen.queue,
             visited |-> seen.visited,
             blob |-> [pixels |-> Append(st.blob.pixels, cIdx),
                       size |-> st.blob.size + 1,
                       sumX |-> st.blob.sumX + cx,
                       sumY |-> st.blob.sumY + cy]]

\* `count` turns of the while loop, one half of them after the other; no
\* turn is left to take once the queue is empty
RECURSIVE DequeueTimes(_, _, _, _, _)
DequeueTimes(mask, width, height, count, st) ==
    IF count = 1 \/ st.queue = <<>> THEN Dequeue(mask, width, height, st)
    ELSE DequeueTimes(mask, width, height, count - count \div 2,
                      DequeueTimes(mask, width, height, count \div 2, st))

\* The while loop, until the queue is empty: the turns are taken `count` at
\* a time, and twice as many before the queue is looked at again.
RECURSIVE WhileQueue(_, _, _, _, _)
WhileQueue(mask, width, height, count, st) ==
    IF st.queue = <<>> THEN st
    ELSE WhileQueue(mask, width, height, 2 * count,
                    DequeueTimes(mask, width, height, count, st))

\* the flood fill (lines 353-376)
FloodFill(mask, width, height, st) == WhileQueue(mask, width, height, 1, st)

\* blob.centroid = { x: sumX / blob.size, y: sumY / blob.size } (lines 379-382)
WithCentroid(acc) ==
    [pixels |-> acc.pixels, size |-> acc.size,
     centroid |-> [x |-> <<acc.sumX, acc.size>>, y |-> <<acc.sumY, acc.size>>]]

\* mutant: a later blob of the same size replaces the largest
KeepLargest_LastWins(blob, largestBlob) ==
    IF blob.size >= largestBlob.size THEN blob ELSE largestBlob

\* if (blob.size > largestBlob.size) largestBlob = blob (lines 385-387)
KeepLargest(blob, largestBlob) ==
    IF blob.size > largestBlob.size THEN blob ELSE largestBlob

\* mutant: the pixel that starts the fill is not marked
NewBlob_Unmarked(start, width, visited) ==
    [queue |-> <<<<start % width, start \div width>>>>,
     visited |-> visited,
     blob |-> [pixels |-> <<>>, size |-> 0, sumX |-> 0, sumY |-> 0]]

\* a new blob is found at pixel index `start` (lines 346-351): the blob is
\* empty, the queue holds the pixel, and the pixel is marked visited
NewBlob(start, width, visited) ==
    [queue |-> <<<<start % width, start \div width>>>>,
     visited |-> visited \cup {start},
     blob |-> [pixels |-> <<>>, size |-> 0, sumX |-> 0, sumY |-> 0]]

\* mask[idx] === 1 && visited[idx] === 0 (line 344)
IsBlobStart(mask, visited, i) == mask[i + 1] = 1 /\ i \notin visited

\* the raster scan (lines 341-390) from pixel index idx on: the next pixel
\* that is foreground and not visited starts a flood fill
RECURSIVE ScanBlobs(_, _, _, _, _, _)
ScanBlobs(mask, width, height, idx, visited, largestBlob) ==
    LET starts == {i \in idx..(width * height - 1) : IsBlobStart(mask, visited, i)}
    IN IF starts = {} THEN largestBlob
       ELSE LET start == CHOOSE i \in starts : \A j \in starts : i <= j
                fill == FloodFill(mask, width, height,
                                  NewBlob(start, width, visited))
            IN ScanBlobs(mask, width, height, start + 1, fill.visited,
                         KeepLargest(WithCentroid(fill.blob), largestBlob))

findLargestBlob(mask, width, height) ==
    ScanBlobs(mask, width, height, 0, {}, EmptyBlob)

\* The same raster scan, recording its work: order lists the pixels in the
\* order queue.shift() returns them (lines 354-358) over all flood fills, and
\* visited is the set of pixels marked when enqueued (lines 351, 372).
RECURSIVE ScanDequeued(_, _, _, _, _, _)
ScanDequeued(mask, width, height, idx, visited, order) ==
    LET starts == {i \in idx..(width * height - 1) : IsBlobStart(mask, visited, i)}
    IN IF starts = {} THEN [order |-> order, visited |-> visited]
       ELSE LET start == CHOOSE i \in starts : \A j \in starts : i <= j
                fill == FloodFill(mask, width, height,
                                  NewBlob(start, width, visited))
            IN ScanDequeued(mask, width, height, start + 1, fill.visited,
                            order \o fill.blob.pixels)

Min(S) == CHOOSE a \in S : \A b \in S : a <= b
Max(S) == CHOOSE a \in S : \A b \in S : a >= b

\* x - centroid.x and y - centroid.y, both multiplied by the blob size
OffsetX(region, x) == x * region.centroid.x[2] - region.centroid.x[1]
OffsetY(region, y) == y * region.centroid.y[2] - region.centroid.y[1]

Magnitude(n) == IF n < 0 THEN -n ELSE n

\* The squares of the offsets do not fit the integers of the model checker.
\* A number is held as three digits d with value
\* d[1] * Base * Base + d[2] * Base + d[3]; sums and differences are taken
\* digit by digit, and the digits are normalised when the sign is read.
Base == 4096

\* n * n, for |n| < Base * Base
Square(n) ==
    LET hi == Magnitude(n) \div Base
        lo == Magnitude(n) % Base
    IN <<hi * hi, 2 * hi * lo, lo * lo>>

Plus(d, e) == <<d[1] + e[1], d[2] + e[2], d[3] + e[3]>>
Minus(d, e) == <<d[1] - e[1], d[2] - e[2], d[3] - e[3]>>
Times(k, d) == <<k * d[1], k * d[2], k * d[3]>>

\* 1, 0 or -1 as the number is positive, zero or negative
SignOf(d) ==
    LET mid == d[2] + (d[3] \div Base)
        high == d[1] + (mid \div Base)
        rest == (mid % Base) * Base + (d[3] % Base)
    IN IF high > 0 THEN 1
       ELSE IF high < 0 THEN -1
       ELSE IF rest > 0 THEN 1 ELSE 0

\* The sampled point of a pixel (lines 444-452).  distance holds dx*dx + dy*dy
\* times the square of the blob size: Math.sqrt keeps the order of the sums.
HullPoint(region, pixelIdx, width) ==
    LET x == pixelIdx % width
        y == pixelIdx \div width
    IN [x |-> x, y |-> y,
        distance |-> Plus(Square(OffsetX(region, x)), Square(OffsetY(region, y)))]

RECURSIVE GCD(_, _)
GCD(a, b) == IF b = 0 THEN a ELSE GCD(b, a % b)

RECURSIVE IsPowerOfTwo(_)
IsPowerOfTwo(n) == n = 1 \/ (n > 1 /\ n % 2 = 0 /\ IsPowerOfTwo(n \div 2))

\* sum / size is a binary fraction: the JavaScript number holds it exactly
IsExact(fraction) ==
    IsPowerOfTwo(fraction[2] \div GCD(fraction[1], fraction[2]))

\* Two points whose distances are equal have the same JavaScript number as
\* distance when both centroid coordinates are exact (dx, dy, their squares
\* and the sum are then exact), or when |dx| and |dy| agree (equal |dx| at
\* different x means x1 + x2 = 2 * centroid.x, an exact centroid.x).  For
\* other pairs the rounding of the centroid decides which distance is the
\* larger number, or whether they are the same number.
SameDistanceNumber(region, a, b) ==
    \/ IsExact(region.centroid.x) /\ IsExact(region.centroid.y)
    \/ /\ Magnitude(OffsetX(region, a.x)) = Magnitude(OffsetX(region, b.x))
       /\ Magnitude(OffsetY(region, a.y)) = Magnitude(OffsetY(region, b.y))

\* points.sort((a, b) => b.distance - a.distance), one point after another:
\* the orders in which `point`, pushed after the points of `sorted`, can
\* stand among them.  The sort is stable and puts the farthest first, so the
\* point stands after the points that are farther and after those with the
\* same number as distance; among the points at an equal distance whose
\* numbers may differ, it can stand anywhere.
InsertByDistance(region, sorted, point) ==
    LET farther == {i \in 1..Len(sorted) :
                       SignOf(Minus(sorted[i].distance, point.distance)) > 0}
        equal == {i \in 1..Len(sorted) :
                     SignOf(Minus(sorted[i].distance, point.distance)) = 0}
        first == Cardinality(farther)
        last == first + Cardinality(equal)
        places == {k \in first..last :
                      \A i \in (k + 1)..last :
                          ~SameDistanceNumber(region, sorted[i], point)}
    IN {SubSeq(sorted, 1, k) \o <<point>> \o SubSeq(sorted, k + 1, Len(sorted)) :
           k \in places}

\* the orders the sort can give to points[from .. from + count - 1] once
\* the points before them are in one of the `orders`: the points are put in
\* place one after another, one half of them after the other
RECURSIVE PlaceByDistance(_, _, _, _, _)
PlaceByDistance(region, points, from, count, orders) ==
    IF count = 1 \/ orders = {}
    THEN UNION {InsertByDistance(region, sorted, points[from]) : sorted \in orders}
    ELSE PlaceByDistance(region, points, from + count \div 2, count - count \div 2,
                         PlaceByDistance(region, points, from, count \div 2, orders))

\* the orders points.sort((a, b) => b.distance - a.distance) can give (line 456)
SortByDistance(region, points) ==
    IF points = <<>> THEN {<<>>}
    ELSE PlaceByDistance(region, points, 1, Len(points), {<<>>})

\* every 10th pixel index is sampled (line 442)
IsSampled(pixelIdx) == pixelIdx % 10 = 0

\* calculateSimplifiedHull(handRegion, width): the 20 farthest sampled points,
\* in each order the sort can give them
calculateSimplifiedHull(region, width) ==
    LET sampled == SelectSeq(region.pixels, IsSampled)
        points == [i \in 1..Len(sampled) |-> HullPoint(region, sampled[i], width)]
    IN {SubSeq(sorted, 1, IF Len(sorted) < 20 THEN Len(sorted) ELSE 20) :
           sorted \in SortByDistance(region, points)}

\* mutant: every hull point is a far point
FarPointCount_All(hullLength) == hullLength

\* Math.ceil(hull.length * 0.3) (line 475)
FarPointCount(hullLength) == (3 * hullLength + 9) \div 10

\* 3 * a * a < b * b
ThriceSquareBelow(a, b) == SignOf(Minus(Times(3, Square(a)), Square(b))) < 0

\* Math.floor(angle / 30) for angle = atan2(dy, dx) in degrees, in [0, 360):
\* tan 30 = 1 / sqrt 3 and tan 60 = sqrt 3 are compared on the squares
AngleBin(dx, dy) ==
    IF dx > 0 /\ dy >= 0
    THEN IF ThriceSquareBelow(dy, dx) THEN 0
         ELSE IF ThriceSquareBelow(dx, dy) THEN 2 ELSE 1
    ELSE IF dx <= 0 /\ dy > 0
    THEN IF ThriceSquareBelow(dx, dy) THEN 3
         ELSE IF ThriceSquareBelow(dy, dx) THEN 5 ELSE 4
    ELSE IF dx < 0 /\ dy <= 0
    THEN IF ThriceSquareBelow(dy, dx) THEN 6
         ELSE IF ThriceSquareBelow(dx, dy) THEN 8 ELSE 7
    ELSE IF dx >= 0 /\ dy < 0
    THEN IF ThriceSquareBelow(dx, dy) THEN 9
         ELSE IF ThriceSquareBelow(dy, dx) THEN 11 ELSE 10
    ELSE 0

\* the bin of a hull point (lines 483-491)
PointBin(region, point) ==
    AngleBin(OffsetX(region, point.x), OffsetY(region, point.y))

\* angleGroups[bin] = (angleGroups[bin] || 0) + 1 over the far points
RECURSIVE CountBins(_, _, _)
CountBins(region, farPoints, angleGroups) ==
    IF farPoints = <<>> THEN angleGroups
    ELSE LET bin == PointBin(region, Head(farPoints))
         IN CountBins(region, Tail(farPoints),
                      [angleGroups EXCEPT ![bin] = @ + 1])

\* mutant: the count is returned without the clamp
ClampFingers_None(possibleFingers) == possibleFingers

\* Math.min(Math.max(1, possibleFingers), 5) (line 504)
ClampFingers(possibleFingers) ==
    IF possibleFingers < 1 THEN 1
    ELSE IF possibleFingers > 5 THEN 5 ELSE possibleFingers

\* estimateFingerCount(region, hull, width)
estimateFingerCount(region, hull, width) ==
    LET farPoints == SubSeq(hull, 1, FarPointCount(Len(hull)))
        angleGroups == CountBins(region, farPoints, [bin \in 0..11 |-> 0])
        possibleFingers == Cardinality({bin \in 0..11 : angleGroups[bin] > 1})
    IN ClampFingers(possibleFingers)

\* calculateHandFeatures(region, width, height), where hull is what
\* calculateSimplifiedHull returned at line 412; aspectRatio is width / height
\* of the result
calculateHandFeatures(region, width, height, hull) ==
    LET xs == {region.pixels[i] % width : i \in 1..Len(region.pixels)}
        ys == {region.pixels[i] \div width : i \in 1..Len(region.pixels)}
        left == Min(xs \cup {width})
        right == Max(xs \cup {0})
        top == Min(ys \cup {height})
        bottom == Max(ys \cup {0})
    IN [centroid |-> region.centroid,
        width |-> right - left,
        height |-> bottom - top,
        boundingBox |-> [left |-> left, right |-> right, top |-> top,
                         bottom |-> bottom],
        fingerCount |-> estimateFingerCount(region, hull, width)]

\* no frame has been processed
InitImage ==
    /\ canvas = [width |-> 0, height |-> 0]
    /\ skinMask = <<>>
    /\ denoisedMask = <<>>
    /\ handRegion = EmptyBlob
    /\ frameHull = <<>>
    /\ handFeatures = NoFeatures
    /\ frameGesture = NullGesture
    /\ imageStage = "none"

(***************************************************************************)
(* SequenceAccumulator: addLetterToWord, lines 49-52, 77-84, 149-178       *)
(***************************************************************************)
cooldownTime == 2000

\* mutant: the label 'I love you' is written in upper case
Chars_UpperCase(label) ==
    IF label = "I LOVE YOU" \/ label = "I love you"
    THEN <<"I", " ", "L", "O", "V", "E", " ", "Y", "O", "U">>
    ELSE <<label>>

\* The characters of a label; join('') concatenates them.
Chars(label) ==
    IF label = "I LOVE YOU"
    THEN <<"I", " ", "L", "O", "V", "E", " ", "Y", "O", "U">>
    ELSE IF label = "I love you"
    THEN <<"I", " ", "l", "o", "v", "e", " ", "y", "o", "u">>
    ELSE <<label>>

\* detectedLetters.join('')
RECURSIVE JoinLetters(_)
JoinLetters(letters) ==
    IF letters = <<>> THEN <<>>
    ELSE Chars(Head(letters)) \o JoinLetters(Tail(letters))

\* mutant: the cooldown test also rejects at exactly cooldownTime
InCooldown_Inclusive(currentTime, last) == currentTime - last <= cooldownTime

\* currentTime - lastLetterTime.current < cooldownTime (line 153)
InCooldown(currentTime, last) == currentTime - last < cooldownTime

\* A callback of a timer or of the interval only queues its state updates:
\* React renders them in a later task.  The updates wait per state hook; a
\* later set replaces an earlier one, the appends of setDetectedLetters
\* (prev => [...prev, letter]) are kept in order.
NoUpdates ==
    [currentGesture |-> <<>>, letterCooldown |-> <<>>, detectedLetters |-> <<>>,
     currentWord |-> <<>>]

\* the updates of the SignLanguageDetector component that wait; the updates
\* of setSignHistory are kept in order
NoSignUpdates ==
    [signHistory |-> <<>>, display |-> <<>>, detectedSign |-> <<>>,
     modelReady |-> <<>>, webcamReady |-> <<>>]

\* the value a state has once the queued sets are rendered
Latest(sets, rendered) == IF sets # <<>> THEN sets[Len(sets)] ELSE rendered

\* setState(value) in a callback; setting the value the state already has,
\* with no update waiting, schedules nothing
QueueSet(sets, rendered, value) ==
    IF sets = <<>> /\ rendered = value THEN <<>> ELSE <<value>>

\* addLetterToWord(letter) (lines 149-178), called with the updates its caller
\* has queued so far: the ref and the timer are written at once, the two
\* state updates are queued
addLetterToWord(letter, updates) ==
    LET currentTime == now IN
    IF InCooldown(currentTime, lastLetterTime)
    THEN /\ lastOffer' = [letter |-> letter, time |-> currentTime, accepted |-> FALSE]
         /\ queued' = updates
         /\ UNCHANGED <<lastLetterTime, timers>>
    ELSE /\ lastLetterTime' = currentTime
         /\ queued' = [updates EXCEPT !.letterCooldown = <<TRUE>>,
                                      !.detectedLetters = Append(@, letter)]
         /\ timers' = timers \cup {currentTime + cooldownTime}
         /\ lastOffer' = [letter |-> letter, time |-> currentTime, accepted |-> TRUE]

\* The [detectedLetters] effect (lines 78-84) as the last render created it:
\* its setCurrentWord joins the updates that wait
FlushWordEffect(updates) ==
    IF wordEffect /\ detectedLetters # <<>>
    THEN [updates EXCEPT !.currentWord = <<JoinLetters(detectedLetters)>>]
    ELSE updates

\* React renders the queued updates in a task of its own.  It runs an effect
\* that is still pending before it renders; the render with a new
\* detectedLetters array leaves its own effect pending.
Render ==
    /\ queued # NoUpdates
    /\ LET updates == FlushWordEffect(queued)
       IN /\ currentGesture' = Latest(updates.currentGesture, currentGesture)
          /\ letterCooldown' = Latest(updates.letterCooldown, letterCooldown)
          /\ detectedLetters' = detectedLetters \o updates.detectedLetters
          /\ currentWord' = Latest(updates.currentWord, currentWord)
          /\ wordEffect' = (updates.detectedLetters # <<>>)
    /\ queued' = NoUpdates
    /\ unrendered' = 0
    /\ UNCHANGED <<stabVars, switches, accVars, now, uiVars>>
    /\ UNCHANGED <<imgVars, detVars>>

\* The pending [detectedLetters] effect runs in a task of its own and queues
\* its setCurrentWord.
RunWordEffect ==
    /\ wordEffect
    /\ queued' = FlushWordEffect(queued)
    /\ wordEffect' = FALSE
    /\ UNCHANGED <<stabVars, switches, accVars, stateVars, unrendered, now, uiVars>>
    /\ UNCHANGED <<imgVars, detVars>>

\* The render of a click runs inside the click.  It applies the updates of
\* the click and leaves the updates queued by callbacks to the later render;
\* an effect that is still pending runs before it, and its setCurrentWord
\* waits with them.
ClickRender(updates) ==
    /\ queued' = FlushWordEffect(updates)
    /\ wordEffect' = FALSE
    /\ unrendered' = IF queued' = NoUpdates THEN 0 ELSE unrendered

\* Clear Word and resetParameters call setDetectedLetters([]) and
\* setCurrentWord('') (lines 620-621, 715-716).  The later render applies the
\* waiting updates in the order they were queued, so the appends and joins
\* queued before the click are overwritten by the click's sets.  The effect
\* of the render with [] does nothing.
ClearLetters ==
    /\ detectedLetters' = <<>>
    /\ currentWord' = <<>>
    /\ ClickRender([queued EXCEPT !.detectedLetters = <<>>, !.currentWord = <<>>])

\* the setTimeout callback of line 170: setLetterCooldown(false)
CooldownTimeout ==
    /\ \E d \in timers :
          /\ d <= now
          /\ timers' = timers \ {d}
    /\ queued' = [queued EXCEPT !.letterCooldown = QueueSet(@, letterCooldown, FALSE)]
    /\ UNCHANGED <<lastLetterTime, lastOffer, stateVars, unrendered, wordEffect>>
    /\ UNCHANGED <<stabVars, switches, now, uiVars>>
    /\ UNCHANGED <<imgVars, detVars>>

(***************************************************************************)
(* Time.  Date.now() at mount is StartTime; the clock advances in steps of *)
(* half a cooldown or of a whole cooldown, and a pending timer fires at its *)
(* deadline.  React renders what is queued before the clock moves on.      *)
(***************************************************************************)
StartTime == 10000
ShortStep == cooldownTime \div 2
TimeSteps == {ShortStep, cooldownTime}

Tick(d, horizon) ==
    /\ now + d <= StartTime + horizon * ShortStep
    /\ \A t \in timers : now + d <= t
    /\ ~wordEffect
    /\ queued = NoUpdates
    /\ now' = now + d
    /\ UNCHANGED <<stabVars, switches, accVars, renderVars, uiVars>>
    /\ UNCHANGED <<imgVars, detVars>>

\* The refs, the rendered state and the clock after the component is
\* constructed (lines 25-52).
InitSession ==
    /\ gestureHistory = <<>>
    /\ stableGesture = Null
    /\ switches = 0
    /\ currentGesture = NullGesture
    /\ detectedLetters = <<>>
    /\ currentWord = <<>>
    /\ letterCooldown = FALSE
    /\ queued = NoUpdates
    /\ unrendered = 0
    /\ wordEffect = FALSE
    /\ closureCooldown = FALSE
    /\ lastLetterTime = 0
    /\ timers = {}
    /\ now = StartTime
    /\ lastOffer = [letter |-> Null, time |-> 0, accepted |-> FALSE]
    /\ frames = 0
    /\ sinceNoHand = <<>>
    /\ lastFrame = NoFrame

\* The state after the component is constructed (lines 25-52).
InitComponent ==
    /\ InitSession
    /\ isProcessing = FALSE
    /\ thresholds = NormalThresholds

\* Bounds: updates of the sign history and animation frames requested in one
\* run.  The detector is followed under two pairs of bounds: runs with more
\* frames and fewer updates of the history, and runs with more updates and
\* fewer frames.
MaxSignOps == 2
MaxRafIds == 4
HistorySignOps == 4
HistoryRafIds == 3

DetectorLimits == [frames |-> MaxRafIds, signOps |-> MaxSignOps]
HistoryLimits == [frames |-> HistoryRafIds, signOps |-> HistorySignOps]

\* The state after SignLanguageDetector is constructed (lines 95-118).
InitDetectorState ==
    /\ signHistory = <<>>
    /\ detectedWord = <<>>
    /\ detectedPhrase = ""
    /\ emitted = <<>>
    /\ signEffect = FALSE
    /\ signOps = 0
    /\ signQueued = NoSignUpdates
    /\ handposeModel = FALSE
    /\ modelReady = FALSE
    /\ webcamReady = FALSE
    /\ requestAnimationRef = 0
    /\ rafQueue = {}
    /\ rafIds = 0
    /\ awaiting = {}
    /\ detectedSign = ""
    /\ lastSignRef = ""
    /\ stableCountRef = 0
    /\ startEffect = FALSE
    /\ startTimer = "idle"
    /\ restartTimers = 0
    /\ mounted = TRUE

InitDetector == InitDetectorState /\ limits = DetectorLimits

Init == InitComponent /\ InitImage /\ InitDetector

\* mutant: every stable gesture is forwarded to the accumulator
IsValidLetter_All(stable) == TRUE

\* stableGesture !== "?" && stableGesture !== "I LOVE YOU" (line 257)
IsValidLetter(stable) == stable # "?" /\ stable # "I LOVE YOU"

\* Bound: interval callbacks that run while updates wait for React to render
\* them.  A callback that leaves nothing waiting is not counted, so the
\* interval never stops: when the bound is reached, updates wait and the
\* render is the next step.
MaxUnrendered == 2

\* the callbacks run since updates began to wait, after a callback that leaves
\* these updates waiting
Unrendered(updates) == IF updates = NoUpdates THEN 0 ELSE unrendered + 1

\* The steps of processFrame after identifyGesture has returned a gesture
\* (lines 249-260): updateGestureHistory, setCurrentGesture, getStableGesture
\* and the offer of a stable letter to addLetterToWord.
PushGesture(gesture) ==
    /\ unrendered < MaxUnrendered
    /\ LET changed == /\ gestureHistory # <<>>
                      /\ gestureHistory[Len(gestureHistory)] # gesture.name
       IN /\ changed => switches < MaxSwitches
          /\ switches' = IF changed THEN switches + 1 ELSE switches
    /\ gestureHistory' = updateGestureHistory(gestureHistory, gesture.name)
    /\ stableGesture' = getStableGesture(gestureHistory')
    /\ LET updates == [queued EXCEPT !.currentGesture = <<gesture>>]
       IN IF stableGesture' # Null /\ ~closureCooldown /\ IsValidLetter(stableGesture')
          THEN addLetterToWord(stableGesture', updates)
          ELSE queued' = updates /\ UNCHANGED accVars
    /\ unrendered' = Unrendered(queued')
    /\ UNCHANGED <<stateVars, wordEffect, now, uiVars>>
    /\ UNCHANGED <<imgVars, detVars>>

NextStabilizer ==
    \/ \E gesture \in StabilizerGestures : PushGesture(gesture)
    \/ Render
    \/ RunWordEffect

SpecStabilizer == Init /\ [][NextStabilizer]_vars

\* every history of five distinct labels emits nothing
C1_FiveDistinct ==
    \A h \in [1..5 -> StabilizerLabels] :
        (\A i, j \in 1..5 : i # j => h[i] # h[j]) => getStableGesture(h) = Null

\* C1: a label is emitted iff the history holds at least 5 entries and the most
\* frequent label's count divided by the history length is >= 0.6; the emitted
\* label is that most frequent label, otherwise nothing is emitted.
C1_Meets(counts, length, g) ==
    /\ length >= 5
    /\ \A o \in StabilizerLabels : counts[o] <= counts[g]
    /\ 10 * counts[g] >= 6 * length

C1_EmitIffDominant ==
    /\ LET counts == [g \in StabilizerLabels |-> CountOf(gestureHistory, g)]
           length == Len(gestureHistory)
       IN /\ \A g \in StabilizerLabels :
                (stableGesture = g) <=> C1_Meets(counts, length, g)
          /\ (stableGesture = Null) <=>
                ~ \E g \in StabilizerLabels : C1_Meets(counts, length, g)
    /\ gestureHistory = <<"A","A","A","A","A","B","A","A","A","A">>
          => stableGesture = "A"
    /\ (Len(gestureHistory) = 5
        /\ \A i, j \in 1..5 : i # j => gestureHistory[i] # gestureHistory[j])
          => stableGesture = Null
    /\ C1_FiveDistinct

C1_Witness ==
    /\ gestureHistory = <<"A","A","A","A","A","B","A","A","A","A">>
    /\ stableGesture = "A"

\* C19: the gesture history never holds more than 10 labels; a push onto a
\* history of 10 removes exactly the oldest label and appends the new one at
\* the end, a push onto a shorter history only appends, so the history is
\* always the last min(n, 10) labels pushed, in push order.
C19_Step ==
    \A gesture \in StabilizerGestures :
        PushGesture(gesture) =>
            LET pushed == gestureHistory \o <<gesture.name>>
            IN gestureHistory' =
                  IF Len(pushed) > 10 THEN SubSeq(pushed, Len(pushed) - 9, Len(pushed))
                  ELSE pushed

C19_LastTenPushes == [](Len(gestureHistory) <= 10) /\ [][C19_Step]_vars

\* ten A's after other labels were pushed: the older labels have been evicted
C19_Witness ==
    /\ Len(gestureHistory) = 10
    /\ \A i \in 1..10 : gestureHistory[i] = "A"
    /\ switches >= 2

\* the last n pushes into the history carried the same label
C24_HeldRun(n) ==
    /\ Len(gestureHistory) >= n
    /\ \A i \in (Len(gestureHistory) - n + 1)..Len(gestureHistory) :
           gestureHistory[i] = gestureHistory[Len(gestureHistory)]

\* C24: whatever the history held before, once the same label L has been
\* pushed on 6 consecutive frames the stabilizer emits L; from an empty
\* history 5 consecutive frames of L suffice; while two labels hold 5 of the
\* 10 entries each, nothing is emitted.
C24_HeldGestureLatency ==
    /\ C24_HeldRun(6) => stableGesture = gestureHistory[Len(gestureHistory)]
    /\ (Len(gestureHistory) = 5 /\ C24_HeldRun(5)) =>
           stableGesture = gestureHistory[Len(gestureHistory)]
    /\ Len(gestureHistory) = 10 =>
           LET counts == [g \in StabilizerLabels |-> CountOf(gestureHistory, g)]
           IN \A a, b \in StabilizerLabels :
                  (a # b /\ counts[a] = 5 /\ counts[b] = 5) => stableGesture = Null

\* a full history whose four oldest entries are other labels and whose six
\* newest are one label: that label is emitted on the sixth push
C24_Witness ==
    /\ Len(gestureHistory) = 10
    /\ C24_HeldRun(6)
    /\ CountOf(gestureHistory, gestureHistory[10]) = 6
    /\ stableGesture = gestureHistory[10]

\* a full history split five against five: nothing is emitted
C24_SplitWitness ==
    /\ Len(gestureHistory) = 10
    /\ CountOf(gestureHistory, gestureHistory[1]) = 5
    /\ CountOf(gestureHistory, gestureHistory[10]) = 5
    /\ gestureHistory[1] # gestureHistory[10]
    /\ stableGesture = Null

\* the labels whose share of the history reaches the cutoff
C26_Reaching ==
    {g \in StabilizerLabels :
        /\ Len(gestureHistory) >= minHistoryLength
        /\ CountOf(gestureHistory, g) * 10 >=
               stabilityCutoffTenths * Len(gestureHistory)}

\* C26: in a history of 5 to 10 entries at most one label reaches a share of
\* 0.6, so an emitted label is the only label that reaches it and occurs
\* strictly more often than every other label, whatever the counting order.
C26_UniqueDominant ==
    LET reaching == C26_Reaching IN
    /\ Cardinality(reaching) <= 1
    /\ stableGesture # Null =>
           /\ reaching = {stableGesture}
           /\ LET most == CountOf(gestureHistory, stableGesture)
              IN \A g \in StabilizerLabels \ {stableGesture} :
                     CountOf(gestureHistory, g) < most

\* a full history split six against four, the minority label counted first:
\* the majority label is emitted
C26_Witness ==
    /\ Len(gestureHistory) = 10
    /\ stableGesture # Null
    /\ gestureHistory[1] # stableGesture
    /\ CountOf(gestureHistory, stableGesture) = 6
    /\ CountOf(gestureHistory, gestureHistory[1]) = 4

(***************************************************************************)
(* The accumulator driven on its own: any letter offered at any time.      *)
(***************************************************************************)
AccumulatorLetters == {"A", "W"}
\* Bound: the clock runs for this many half-cooldown steps.
AccumulatorHorizon == 21

OfferLetter(letter) ==
    /\ unrendered < MaxUnrendered
    /\ addLetterToWord(letter, queued)
    /\ unrendered' = Unrendered(queued')
    /\ UNCHANGED <<stateVars, wordEffect>>
    /\ UNCHANGED <<stabVars, switches, now, uiVars>>
    /\ UNCHANGED <<imgVars, detVars>>

NextAccumulator ==
    \/ \E letter \in AccumulatorLetters : OfferLetter(letter)
    \/ \E d \in TimeSteps : Tick(d, AccumulatorHorizon)
    \/ CooldownTimeout
    \/ Render
    \/ RunWordEffect

SpecAccumulator == Init /\ [][NextAccumulator]_vars

\* C2: an offered symbol is accepted iff at least 2000 ms have elapsed since the
\* last accepted symbol; a rejected symbol leaves the buffer and the last-accept
\* timestamp unchanged; an accepted symbol appends exactly one symbol at the end
\* of the buffer and sets the last-accept timestamp to the current time.
\* The append is the update setDetectedLetters(prev => [...prev, letter]) the
\* offer queues: the next render puts it at the end of the buffer.
C2_Step ==
    lastOffer' # lastOffer =>
        IF now - lastLetterTime >= 2000
        THEN /\ lastOffer'.accepted
             /\ queued'.detectedLetters =
                    Append(queued.detectedLetters, lastOffer'.letter)
             /\ lastLetterTime' = now
        ELSE /\ ~lastOffer'.accepted
             /\ queued'.detectedLetters = queued.detectedLetters
             /\ lastLetterTime' = lastLetterTime

C2_CooldownGate == [][C2_Step]_vars

\* two offers 2000 ms apart: both accepted
C2_Witness ==
    /\ Len(detectedLetters) = 2
    /\ lastOffer.accepted
    /\ lastOffer.time = StartTime + 2000

\* C3 (as claimed): the letter buffer never holds more than 10 symbols.
C3_AtMostTen == Len(detectedLetters) <= 10

(***************************************************************************)
(* The component as a whole: the processing interval (lines 86-118),       *)
(* processFrame (lines 181-276) and the buttons (lines 613-647, 707-728).  *)
(* The image stages of processFrame (lines 206-243) are represented by     *)
(* what they hand to the session logic: whether the video is ready, the    *)
(* size of the largest blob and the features of that blob.  The features   *)
(* range over the HandFeatures interface (lines 6-13).                     *)
(* The frames are frames the image stages produce: a finger count of 1 to  *)
(* 3 and a bounding box that holds the blob.  The features of a blob that  *)
(* does not pass the size gate are never computed (line 242); they are     *)
(* given here as calculateHandFeatures would compute them, so that a gate  *)
(* that lets the blob through has a gesture to identify.  For an empty     *)
(* mask they are the extremes calculateHandFeatures starts from on a       *)
(* 640 x 480 canvas.                                                       *)
(***************************************************************************)
FrameInputs ==
    {NoFrame,
     [ready |-> TRUE, size |-> 0, features |-> Features(1, -640, -480)],
     [ready |-> TRUE, size |-> 900, features |-> Features(1, 30, 42)],
     [ready |-> TRUE, size |-> 1200, features |-> Features(1, 36, 50)],
     [ready |-> TRUE, size |-> 1499, features |-> Features(1, 41, 57)],
     [ready |-> TRUE, size |-> 1500, features |-> Features(1, 41, 57)],
     [ready |-> TRUE, size |-> 1512, features |-> Features(1, 41, 57)],
     [ready |-> TRUE, size |-> 1539, features |-> Features(1, 59, 52)],
     [ready |-> TRUE, size |-> 1600, features |-> Features(3, 50, 50)]}

\* Bounds: interval callbacks in one run, and half-cooldown steps of the clock.
MaxFrames == 6
PipelineHorizon == 2
\* mutant: every blob that is not empty passes the size gate
HandDetected_NonEmpty(size, th) == size > 0

\* handRegion.size > thresholds.blobMinSize (line 242)
HandDetected(size, th) == size > th.blobMinSize

\* One interval callback: processFrame() as captured when the interval effect
\* last ran (closureCooldown is that render's letterCooldown).
ProcessFrame(f) ==
    /\ isProcessing
    /\ frames < MaxFrames
    /\ unrendered < MaxUnrendered
    /\ frames' = frames + 1
    /\ lastFrame' = f
    /\ UNCHANGED <<stateVars, wordEffect, now, isProcessing, thresholds,
                   closureCooldown, switches>>
    /\ UNCHANGED <<imgVars, detVars>>
    /\ IF ~f.ready
       THEN /\ stableGesture' = Null
            /\ UNCHANGED <<gestureHistory, queued, sinceNoHand, accVars>>
       ELSE IF HandDetected(f.size, thresholds)
       THEN LET gesture == identifyGesture(f.features) IN
            IF gesture # NullGesture
            THEN /\ gestureHistory' = updateGestureHistory(gestureHistory, gesture.name)
                 /\ sinceNoHand' = updateGestureHistory(sinceNoHand, gesture.name)
                 /\ stableGesture' = getStableGesture(gestureHistory')
                 /\ LET updates == [queued EXCEPT !.currentGesture = <<gesture>>]
                    IN IF stableGesture' # Null /\ ~closureCooldown
                          /\ IsValidLetter(stableGesture')
                       THEN addLetterToWord(stableGesture', updates)
                       ELSE queued' = updates /\ UNCHANGED accVars
            ELSE /\ stableGesture' = Null
                 /\ UNCHANGED <<gestureHistory, queued, sinceNoHand, accVars>>
       ELSE /\ queued' = [queued EXCEPT !.currentGesture =
                                            QueueSet(@, currentGesture, NullGesture)]
            /\ stableGesture' = Null
            /\ sinceNoHand' = <<>>
            /\ UNCHANGED <<gestureHistory, accVars>>
    /\ unrendered' = Unrendered(queued')

\* The Pause/Start button: setIsProcessing(!isProcessing).  The interval effect
\* depends on [isProcessing, thresholds]: it runs again and captures the
\* processFrame of the click's render, whose letterCooldown is the rendered one.
ToggleProcessing ==
    /\ isProcessing' = ~isProcessing
    /\ closureCooldown' = letterCooldown
    /\ ClickRender(queued)
    /\ UNCHANGED <<stabVars, switches, accVars, stateVars, now, thresholds, frames,
                   sinceNoHand, lastFrame>>
    /\ UNCHANGED <<imgVars, detVars>>

\* The Clear Word button (lines 714-718)
ClearWord ==
    /\ ClearLetters
    /\ gestureHistory' = <<>>
    /\ sinceNoHand' = <<>>
    /\ UNCHANGED <<stableGesture, switches, accVars, currentGesture, letterCooldown,
                   now, isProcessing, thresholds, closureCooldown, frames, lastFrame>>
    /\ UNCHANGED <<imgVars, detVars>>

\* resetParameters (lines 613-623); setThresholds stores a new object, so the
\* interval effect runs again.
resetParameters ==
    /\ thresholds' = NormalThresholds
    /\ ClearLetters
    /\ gestureHistory' = <<>>
    /\ sinceNoHand' = <<>>
    /\ closureCooldown' = letterCooldown
    /\ UNCHANGED <<stableGesture, switches, accVars, currentGesture, letterCooldown,
                   now, isProcessing, frames, lastFrame>>
    /\ UNCHANGED <<imgVars, detVars>>

\* adjustForLighting(preset) (lines 626-647)
adjustForLighting(preset) ==
    IF preset = "bright" \/ preset = "dim"
    THEN /\ thresholds' = IF preset = "bright" THEN BrightThresholds
                          ELSE DimThresholds
         /\ closureCooldown' = letterCooldown
         /\ ClickRender(queued)
         /\ UNCHANGED <<stabVars, switches, accVars, stateVars, now, isProcessing,
                        frames, sinceNoHand, lastFrame>>
         /\ UNCHANGED <<imgVars, detVars>>
    ELSE resetParameters

NextPipeline ==
    \/ \E f \in FrameInputs : ProcessFrame(f)
    \/ ToggleProcessing
    \/ ClearWord
    \/ resetParameters
    \/ \E preset \in {"bright", "normal", "dim"} : adjustForLighting(preset)
    \/ \E d \in TimeSteps : Tick(d, PipelineHorizon)
    \/ CooldownTimeout
    \/ Render
    \/ RunWordEffect

SpecPipeline == Init /\ [][NextPipeline]_vars

\* C6: the labels "?" and "I LOVE YOU" are never appended to the letter buffer:
\* no element of detectedLetters is one of them, even when one of them is the
\* stable gesture.  The image stages give no frame that makes either label
\* stable, so the property is checked on the stabilizer driven with every
\* kind of gesture identifyGesture returns.
C6_NoDisplayOnlyLabels ==
    LET buffer == detectedLetters \o queued.detectedLetters
    IN \A i \in 1..Len(buffer) : buffer[i] # "?" /\ buffer[i] # "I LOVE YOU"

\* "I LOVE YOU" is the stable gesture of the gesture just pushed, the captured
\* cooldown flag is clear and the cooldown time has passed: only the label filter
\* keeps it out of the buffer.
C6_Witness ==
    /\ stableGesture = "I LOVE YOU"
    /\ currentGesture.name = "I LOVE YOU"
    /\ ~closureCooldown
    /\ now - lastLetterTime >= cooldownTime
    /\ detectedLetters = <<>>
    /\ queued = NoUpdates

\* C7 (as claimed): the reset restores the normal thresholds and clears all
\* session state, the last-accept timestamp included, so that the first stable
\* symbol offered after the reset is accepted whenever the last one was accepted.
C7_ResetStep ==
    resetParameters =>
        /\ thresholds' = NormalThresholds
        /\ gestureHistory' = <<>>
        /\ detectedLetters' = <<>>
        /\ currentWord' = <<>>
        /\ now' - lastLetterTime' >= 2000

C7_ResetClearsSession == [][C7_ResetStep]_vars

\* C8 (as claimed): a gesture is emitted only if it reaches the stability
\* cutoff over the frames observed after the last no-hand frame.
C8_NoPersistenceAfterNoHand ==
    stableGesture # Null => getStableGesture(sinceNoHand) = stableGesture

\* C9 (as claimed): when processing is started, the session starts with an
\* empty stabilizer history and an empty letter buffer.
C9_StartStep ==
    (~isProcessing /\ isProcessing') =>
        /\ gestureHistory' = <<>>
        /\ detectedLetters' = <<>>

C9_FreshSessionOnStart == [][C9_StartStep]_vars

\* C12 (as claimed): a frame whose stable gesture is a forwardable letter, at
\* least 2000 ms after the last accepted letter, appends that letter to the
\* buffer, whatever presets, resets or pauses came before; the cooldown flag
\* read by processFrame does not block it.  The append is the update the
\* frame queues for the next render.
C12_Step ==
    (/\ frames' = frames + 1
     /\ stableGesture' # Null
     /\ IsValidLetter(stableGesture')
     /\ now - lastLetterTime >= 2000)
    => queued'.detectedLetters = Append(queued.detectedLetters, stableGesture')

C12_AcceptedAfterCooldown == [][C12_Step]_vars

\* C13: a frame whose largest blob is smaller than blobMinSize (size 0
\* included) yields no gesture: nothing is pushed into the gesture history,
\* nothing is offered to the accumulator, the letter buffer is unchanged and
\* the current gesture is set to none.  The buffer is unchanged when no
\* append is queued; the gesture is none once the queued set is rendered.
C13_Step ==
    \A f \in FrameInputs :
        (f.ready /\ f.size < thresholds.blobMinSize /\ ProcessFrame(f)) =>
            /\ gestureHistory' = gestureHistory
            /\ lastOffer' = lastOffer
            /\ queued'.detectedLetters = queued.detectedLetters
            /\ Latest(queued'.currentGesture, currentGesture') = NullGesture
            /\ stableGesture' = Null

C13_BelowMinSizeNoGesture == [][C13_Step]_vars

\* a frame whose blob is not empty and smaller than blobMinSize has just been
\* processed while the gesture history held labels: the history is kept, the
\* gesture is none
C13_Witness ==
    /\ frames > 0
    /\ lastFrame.ready
    /\ lastFrame.size > 0
    /\ lastFrame.size < thresholds.blobMinSize
    /\ sinceNoHand = <<>>
    /\ Len(gestureHistory) >= 5
    /\ currentGesture = NullGesture
    /\ stableGesture = Null

\* C23 (as claimed): a frame whose largest blob has size exactly blobMinSize
\* is treated as a hand: the gesture identified from its features becomes the
\* current gesture, as for any larger blob: the frame queues
\* setCurrentGesture(gesture).
C23_Step ==
    \A f \in FrameInputs :
        (f.ready /\ f.size = thresholds.blobMinSize /\ ProcessFrame(f)) =>
            /\ identifyGesture(f.features) # NullGesture
            /\ queued'.currentGesture = <<identifyGesture(f.features)>>

C23_MinSizeIsAHand == [][C23_Step]_vars

(***************************************************************************)
(* VocabularyMatcher: SignLanguageDetector.tsx, lines 48-92 (the lists)    *)
(* and 218-292 (the [signHistory] effect).  Texts are sequences of         *)
(* characters; a phrase's meaning is kept as a string.                     *)
(***************************************************************************)
commonWords == <<
    <<"H","E","L","L","O">>,
    <<"H","I">>,
    <<"G","O","O","D","B","Y","E">>,
    <<"B","Y","E">>,
    <<"T","H","A","N","K"," ","Y","O","U">>,
    <<"P","L","E","A","S","E">>,
    <<"S","O","R","R","Y">>,
    <<"Y","E","S">>,
    <<"N","O">>,
    <<"O","K">>,
    <<"G","O","O","D">>,
    <<"B","A","D">>,
    <<"W","H","A","T">>,
    <<"W","H","E","R","E">>,
    <<"W","H","E","N">>,
    <<"W","H","O">>,
    <<"W","H","Y">>,
    <<"H","O","W">>,
    <<"I">>,
    <<"Y","O","U">>,
    <<"W","E">>,
    <<"T","H","E","Y">>,
    <<"M","Y">>,
    <<"Y","O","U","R">>,
    <<"N","A","M","E">>,
    <<"F","R","I","E","N","D">>,
    <<"F","A","M","I","L","Y">>,
    <<"M","O","T","H","E","R">>,
    <<"F","A","T","H","E","R">>,
    <<"S","I","S","T","E","R">>,
    <<"B","R","O","T","H","E","R">>,
    <<"L","O","V","E">>,
    <<"H","A","P","P","Y">>,
    <<"S","A","D">>,
    <<"A","N","G","R","Y">>,
    <<"T","I","R","E","D">>,
    <<"S","I","C","K">>,
    <<"F","I","N","E">>,
    <<"H","E","L","P">>,
    <<"W","A","N","T">>,
    <<"N","E","E","D">>,
    <<"G","O">>,
    <<"C","O","M","E">>,
    <<"L","E","A","R","N">>,
    <<"U","N","D","E","R","S","T","A","N","D">>,
    <<"E","A","T">>,
    <<"D","R","I","N","K">>,
    <<"S","L","E","E","P">>,
    <<"W","O","R","K">>,
    <<"P","L","A","Y">>,
    <<"N","O","W">>,
    <<"L","A","T","E","R">>,
    <<"T","O","D","A","Y">>,
    <<"T","O","M","O","R","R","O","W">>,
    <<"Y","E","S","T","E","R","D","A","Y">>,
    <<"N","I","C","E"," ","T","O"," ","M","E","E","T"," ","Y","O","U">>,
    <<"H","O","W"," ","A","R","E"," ","Y","O","U">>,
    <<"I"," ","A","M"," ","F","I","N","E">>,
    <<"E","X","C","U","S","E"," ","M","E">>,
    <<"I"," ","U","N","D","E","R","S","T","A","N","D">>,
    <<"I"," ","D","O","N","T"," ","U","N","D","E","R","S","T","A","N","D">>,
    <<"C","A","N"," ","Y","O","U"," ","H","E","L","P"," ","M","E">>,
    <<"T","H","A","N","K"," ","Y","O","U"," ","V","E","R","Y"," ","M","U","C","H">>
>>

conversationPhrases == <<
    [text |-> <<"H","E","L","L","O"," ","H","O","W"," ","A","R","E"," ","Y","O","U">>,
     meaning |-> "Hello, how are you?"],
    [text |-> <<"M","Y"," ","N","A","M","E"," ","I","S">>,
     meaning |-> "My name is..."],
    [text |-> <<"N","I","C","E"," ","T","O"," ","M","E","E","T"," ","Y","O","U">>,
     meaning |-> "Nice to meet you"],
    [text |-> <<"I"," ","D","O","N","T"," ","U","N","D","E","R","S","T","A","N","D">>,
     meaning |-> "I don't understand"],
    [text |-> <<"C","A","N"," ","Y","O","U"," ","H","E","L","P"," ","M","E">>,
     meaning |-> "Can you help me?"],
    [text |-> <<"I"," ","N","E","E","D"," ","H","E","L","P">>,
     meaning |-> "I need help"],
    [text |-> <<"T","H","A","N","K"," ","Y","O","U"," ","V","E","R","Y"," ","M","U","C","H">>,
     meaning |-> "Thank you very much"],
    [text |-> <<"W","H","E","R","E"," ","I","S">>,
     meaning |-> "Where is...?"],
    [text |-> <<"I"," ","A","M"," ","F","I","N","E">>,
     meaning |-> "I am fine"],
    [text |-> <<"I"," ","A","M"," ","H","A","P","P","Y">>,
     meaning |-> "I am happy"],
    [text |-> <<"I"," ","A","M"," ","S","O","R","R","Y">>,
     meaning |-> "I am sorry"],
    [text |-> <<"S","E","E"," ","Y","O","U"," ","T","O","M","O","R","R","O","W">>,
     meaning |-> "See you tomorrow"],
    [text |-> <<"I"," ","L","O","V","E"," ","Y","O","U">>,
     meaning |-> "I love you"]
>>

\* currentSequence.includes(text)
Includes(sequence, text) ==
    \E i \in 0..(Len(sequence) - Len(text)) :
        SubSeq(sequence, i + 1, i + Len(text)) = text

\* the for loop of lines 228-243: index of the first phrase found, 0 if none
RECURSIVE ScanPhrases(_, _)
ScanPhrases(sequence, i) ==
    IF i > Len(conversationPhrases) THEN 0
    ELSE IF Includes(sequence, conversationPhrases[i].text) THEN i
    ELSE ScanPhrases(sequence, i + 1)

\* mutant: the last word found in the list wins
RECURSIVE ScanWords_LastWins(_, _)
ScanWords_LastWins(sequence, i) ==
    LET found == {j \in i..Len(commonWords) : Includes(sequence, commonWords[j])}
    IN IF found = {} THEN 0 ELSE CHOOSE j \in found : \A k \in found : k <= j

\* the for loop of lines 246-261: index of the first word found, 0 if none
RECURSIVE ScanWords(_, _)
ScanWords(sequence, i) ==
    IF i > Len(commonWords) THEN 0
    ELSE IF Includes(sequence, commonWords[i]) THEN i
    ELSE ScanWords(sequence, i + 1)

\* signHistory.slice(-2).join('')
LastTwo(history) ==
    JoinLetters(SubSeq(history, Len(history) - 1, Len(history)))

Toast(kind, text) == [kind |-> kind, text |-> text]

\* lines 230-241: setDetectedWord(''), setDetectedPhrase(meaning), toast, return
PhraseDetected(meaning, display) ==
    [word |-> <<>>, phrase |-> meaning,
     toasts |-> Append(display.toasts, Toast("phrase", meaning))]

\* lines 248-259 and 266-289: setDetectedWord(word), setDetectedPhrase(''), toast
WordDetected(kind, word, display) ==
    [word |-> word, phrase |-> "",
     toasts |-> Append(display.toasts, Toast(kind, word))]

\* lines 264-291: the two-symbol checks, one after the other
Shortcuts(history, display) ==
    IF Len(history) >= 2
    THEN LET lastTwo == LastTwo(history)
             afterHI == IF lastTwo = <<"H", "I">>
                        THEN WordDetected("shortcut", <<"H", "I">>, display)
                        ELSE display
         IN IF lastTwo = <<"N", "O">>
            THEN WordDetected("shortcut", <<"N", "O">>, afterHI)
            ELSE afterHI
    ELSE display

\* mutant: the word list is not scanned
VocabularyEffect_NoWordScan(history, display) ==
    IF Len(history) = 0 THEN display
    ELSE LET currentSequence == JoinLetters(history)
             p == ScanPhrases(currentSequence, 1)
         IN IF p # 0
            THEN PhraseDetected(conversationPhrases[p].meaning, display)
            ELSE Shortcuts(history, display)

\* mutant: the two-symbol checks come before the word scan
VocabularyEffect_ShortcutsFirst(history, display) ==
    IF Len(history) = 0 THEN display
    ELSE LET currentSequence == JoinLetters(history)
             p == ScanPhrases(currentSequence, 1)
             w == ScanWords(currentSequence, 1)
             shortcuts == Shortcuts(history, display)
         IN IF p # 0
            THEN PhraseDetected(conversationPhrases[p].meaning, display)
            ELSE IF shortcuts # display THEN shortcuts
            ELSE IF w # 0 THEN WordDetected("word", commonWords[w], display)
            ELSE display

\* The [signHistory] effect (lines 218-292) applied to the displayed word and
\* phrase; display.toasts collects the toasts of this run.
VocabularyEffect(history, display) ==
    IF Len(history) = 0 THEN display
    ELSE LET currentSequence == JoinLetters(history)
             p == ScanPhrases(currentSequence, 1)
             w == ScanWords(currentSequence, 1)
         IN IF p # 0
            THEN PhraseDetected(conversationPhrases[p].meaning, display)
            ELSE IF w # 0 THEN WordDetected("word", commonWords[w], display)
            ELSE Shortcuts(history, display)

\* [...prev, bestMatch].slice(-10) (line 451)
LastTen(history) ==
    IF Len(history) > 10 THEN SubSeq(history, Len(history) - 9, Len(history))
    ELSE history

\* a waiting setSignHistory(prev => ...): the entries it appends and whether it
\* keeps the last ten only (lines 203-205, 449-453, 568)
HistoryUpdate(items, slice) == [items |-> items, slice |-> slice]

\* the waiting updates of the history applied in the order they were queued
RECURSIVE ApplyHistory(_, _)
ApplyHistory(history, updates) ==
    IF updates = <<>> THEN history
    ELSE LET next == history \o Head(updates).items
         IN ApplyHistory(IF Head(updates).slice THEN LastTen(next) ELSE next,
                         Tail(updates))

\* the displayed word and phrase
Shown == [word |-> detectedWord, phrase |-> detectedPhrase]

\* A run of the [signHistory] effect on a history; its sets meet the word and
\* phrase that wait, or else the rendered ones.
EffectRun(history, updates) ==
    LET shown == Latest(updates.display, Shown)
    IN VocabularyEffect(history, [word |-> shown.word, phrase |-> shown.phrase,
                                  toasts |-> <<>>])

\* setDetectedWord and setDetectedPhrase of a run wait for the next render;
\* every branch that sets them sets both and toasts
QueueDisplay(run, updates) ==
    IF run.toasts # <<>>
    THEN [updates EXCEPT !.display = <<[word |-> run.word, phrase |-> run.phrase]>>]
    ELSE updates

\* React runs a pending effect before it renders again: the effect created by
\* the render with signHistory queues its state updates.
FlushSignEffect(updates) ==
    IF signEffect THEN QueueDisplay(EffectRun(signHistory, updates), updates)
    ELSE updates

\* the toasts of the pending effect, if it runs now
FlushToasts(updates) ==
    IF signEffect THEN EffectRun(signHistory, updates).toasts ELSE emitted

\* setSignHistory(prev => ...) in a timer or a promise continuation, after
\* the updates its caller has queued: the update waits for the next render
SetSignHistory(update, updates) ==
    /\ signOps < limits.signOps
    /\ signOps' = signOps + 1
    /\ signQueued' = [updates EXCEPT !.signHistory = Append(@, update)]

\* a callback: its animation frame id and the state its detectHands closes over
Callback(id, sign, history) == [id |-> id, sign |-> sign, history |-> history]

\* requestAnimationRef.current = requestAnimationFrame(detectHands)
RequestFrame(queue, sign, history) ==
    /\ rafIds < limits.frames
    /\ rafIds' = rafIds + 1
    /\ requestAnimationRef' = rafIds + 1
    /\ rafQueue' = queue \cup {Callback(rafIds + 1, sign, history)}

\* cancelAnimationFrame(id): drops the callback if it is still pending
CancelFrame(queue, id) == {cb \in queue : cb.id # id}

\* The start effect (lines 195-209), created by a render in which modelReady
\* or webcamReady changed.
StartEffect(model, webcam) ==
    IF model /\ webcam /\ requestAnimationRef = 0
    THEN /\ RequestFrame(rafQueue, detectedSign, signHistory)
         /\ startTimer' = "H"
    ELSE UNCHANGED <<requestAnimationRef, rafQueue, rafIds, startTimer>>

\* React runs a pending start effect before it renders again; the effect
\* holds the modelReady and webcamReady of the render that created it.
FlushStartEffect ==
    IF startEffect THEN StartEffect(modelReady, webcamReady)
    ELSE UNCHANGED <<requestAnimationRef, rafQueue, rafIds, startTimer>>

\* The passive effects a render has left pending run together in one task, in
\* the order of their declaration: the start effect (lines 195-209), then the
\* [signHistory] effect (lines 218-292), whose state updates wait for the
\* next render.
RunEffects ==
    /\ startEffect \/ signEffect
    /\ FlushStartEffect
    /\ startEffect' = FALSE
    /\ signQueued' = FlushSignEffect(signQueued)
    /\ emitted' = FlushToasts(signQueued)
    /\ signEffect' = FALSE
    /\ UNCHANGED <<signHistory, detectedWord, detectedPhrase, signOps>>
    /\ UNCHANGED <<handposeModel, modelReady, webcamReady, awaiting, detectedSign,
                   lastSignRef, stableCountRef, restartTimers, mounted>>
    /\ UNCHANGED <<shfVars, limits>>

\* React renders the queued updates in a task of its own.  It runs the effects
\* that are still pending before it renders; a render with a new history
\* array leaves its [signHistory] effect pending, a render in which modelReady
\* or webcamReady changed leaves its start effect pending.
RenderDetector ==
    /\ mounted
    /\ signQueued # NoSignUpdates
    /\ LET updates == FlushSignEffect(signQueued)
           shown == Latest(updates.display, Shown)
       IN /\ signHistory' = ApplyHistory(signHistory, updates.signHistory)
          /\ detectedWord' = shown.word
          /\ detectedPhrase' = shown.phrase
          /\ detectedSign' = Latest(updates.detectedSign, detectedSign)
          /\ modelReady' = Latest(updates.modelReady, modelReady)
          /\ webcamReady' = Latest(updates.webcamReady, webcamReady)
          /\ signEffect' = (updates.signHistory # <<>>)
    /\ emitted' = FlushToasts(signQueued)
    /\ FlushStartEffect
    /\ startEffect' = (modelReady' # modelReady \/ webcamReady' # webcamReady)
    /\ signQueued' = NoSignUpdates
    /\ UNCHANGED <<signOps, handposeModel, awaiting, lastSignRef, stableCountRef,
                   restartTimers, mounted>>
    /\ UNCHANGED <<shfVars, limits>>

\* demonstrateWordDetection (lines 578-585), a click handler.  The render of
\* a click runs inside the click: it applies the updates of the click and
\* leaves the updates queued by callbacks to the later render, which applies
\* them in the order they were queued, so the appends queued before the click
\* are overwritten by its set.  The effects that are still pending run before
\* the click's render, the effect of that render runs before the click
\* returns; their state updates wait.
demonstrateWordDetection ==
    /\ mounted
    /\ signOps < limits.signOps
    /\ signOps' = signOps + 1
    /\ signHistory' = <<"H", "E", "L", "L", "O">>
    /\ LET updates == FlushSignEffect([signQueued EXCEPT !.signHistory = <<>>])
           run == EffectRun(signHistory', updates)
       IN /\ signQueued' = QueueDisplay(run, updates)
          /\ emitted' = run.toasts
    /\ signEffect' = FALSE
    /\ FlushStartEffect
    /\ startEffect' = FALSE
    /\ UNCHANGED <<detectedWord, detectedPhrase>>
    /\ UNCHANGED <<handposeModel, modelReady, webcamReady, awaiting, detectedSign,
                   lastSignRef, stableCountRef, restartTimers, mounted>>
    /\ UNCHANGED <<shfVars, limits>>

\* mutant: the clear action leaves the displayed word in place
clearSignHistory_KeepWord ==
    /\ mounted
    /\ Len(signHistory) > 0
    /\ signHistory' = <<>>
    /\ detectedPhrase' = ""
    /\ signQueued' = FlushSignEffect([signQueued EXCEPT !.signHistory = <<>>,
                                                        !.display = <<>>])
    /\ emitted' = <<>>
    /\ signEffect' = FALSE
    /\ FlushStartEffect
    /\ startEffect' = FALSE
    /\ UNCHANGED <<detectedWord, signOps, handposeModel, modelReady, webcamReady,
                   awaiting, detectedSign, lastSignRef, stableCountRef,
                   restartTimers, mounted>>
    /\ UNCHANGED <<shfVars, limits>>

\* clearSignHistory (lines 541-549), a click handler.  The appends and the
\* words queued before the click are overwritten by its sets; a pending
\* effect runs before the click's render and its state updates come after
\* the handler's.  The effect of the render with [] returns at once.
clearSignHistory ==
    /\ mounted
    /\ Len(signHistory) > 0
    /\ signHistory' = <<>>
    /\ detectedWord' = <<>>
    /\ detectedPhrase' = ""
    /\ signQueued' = FlushSignEffect([signQueued EXCEPT !.signHistory = <<>>,
                                                        !.display = <<>>])
    /\ emitted' = <<>>
    /\ signEffect' = FALSE
    /\ FlushStartEffect
    /\ startEffect' = FALSE
    /\ UNCHANGED <<signOps, handposeModel, modelReady, webcamReady, awaiting,
                   detectedSign, lastSignRef, stableCountRef, restartTimers,
                   mounted>>
    /\ UNCHANGED <<shfVars, limits>>

(***************************************************************************)
(* The detection loop: SignLanguageDetector.tsx, lines 108-118, 136-148,   *)
(* 194-215, 359-485, 551-575.  detectHands is an async function run as an  *)
(* animation frame callback; it requests the next frame with itself, so a  *)
(* loop keeps the detectedSign and signHistory of the render whose         *)
(* detectHands started it.                                                 *)
(* The file holds a second, earlier copy of the component from line 737    *)
(* on, which keeps no sign history; the model follows the first copy.      *)
(***************************************************************************)
STABILITY_THRESHOLD == 3

\* an entry of `signs`: its key, fingersUp, special ("" if absent) and curved
Sign(name, fingersUp, special, curved) ==
    [name |-> name, fingersUp |-> fingersUp, special |-> special, curved |-> curved]

\* `signs` (lines 18-46) in the order of Object.entries
signs == <<
    Sign("A", <<1, 0, 0, 0, 0>>, "", FALSE),
    Sign("B", <<0, 1, 1, 1, 1>>, "", FALSE),
    Sign("C", <<0, 1, 1, 1, 1>>, "", TRUE),
    Sign("D", <<1, 1, 0, 0, 0>>, "", FALSE),
    Sign("E", <<0, 0, 0, 0, 0>>, "", TRUE),
    Sign("F", <<1, 1, 1, 1, 1>>, "thumb-index-touch", FALSE),
    Sign("G", <<1, 1, 0, 0, 0>>, "g-shape", FALSE),
    Sign("H", <<0, 1, 1, 0, 0>>, "", FALSE),
    Sign("I", <<0, 0, 0, 0, 1>>, "", FALSE),
    Sign("J", <<0, 0, 0, 0, 1>>, "j-motion", FALSE),
    Sign("K", <<1, 1, 1, 0, 0>>, "k-shape", FALSE),
    Sign("L", <<1, 1, 0, 0, 0>>, "", FALSE),
    Sign("M", <<0, 0, 0, 0, 0>>, "m-shape", FALSE),
    Sign("N", <<0, 0, 0, 0, 0>>, "n-shape", FALSE),
    Sign("O", <<1, 1, 1, 1, 1>>, "circle", FALSE),
    Sign("P", <<1, 1, 0, 0, 0>>, "p-shape", FALSE),
    Sign("Q", <<1, 1, 0, 0, 0>>, "q-shape", FALSE),
    Sign("R", <<0, 1, 1, 0, 0>>, "crossed", FALSE),
    Sign("S", <<0, 0, 0, 0, 0>>, "", FALSE),
    Sign("T", <<1, 0, 0, 0, 0>>, "thumb-between", FALSE),
    Sign("U", <<0, 1, 1, 0, 0>>, "", FALSE),
    Sign("V", <<0, 1, 1, 0, 0>>, "v-shape", FALSE),
    Sign("W", <<0, 1, 1, 1, 0>>, "", FALSE),
    Sign("X", <<0, 0, 0, 0, 0>>, "x-shape", FALSE),
    Sign("Y", <<1, 0, 0, 0, 1>>, "", FALSE),
    Sign("Z", <<0, 1, 0, 0, 0>>, "z-motion", FALSE),
    Sign("I love you", <<1, 1, 0, 0, 1>>, "", FALSE)
>>

\* What getFingerState (lines 295-320) and detectSpecialConfigurations (lines
\* 323-356) make of the landmarks of a hand: the five finger states, whether
\* thumb and index tips are closer than 20 and whether index and middle tips
\* are more than 25 apart.
Hand(fingerStates, thumbIndexTouch, vShape) ==
    [fingerStates |-> fingerStates, thumbIndexTouch |-> thumbIndexTouch,
     vShape |-> vShape]

\* specialConfigurations[special] (lines 340-355): every other entry is false
specialConfigurations(hand, special) ==
    \/ special = "thumb-index-touch" /\ hand.thumbIndexTouch
    \/ special = "v-shape" /\ hand.vShape

\* Scores are JavaScript doubles.  A score is written in hundredths, with a
\* final 1 where the double lies above the decimal fraction: 0.2 + 0.2 + 0.2
\* is 0.6000000000000001 and is written 61.
\* the reduce of lines 413-415 by the number of matching fingers
MatchScore == <<0, 20, 40, 61, 80, 100>>

\* similarity += 0.3 (line 419)
AddSpecialBonus(similarity) ==
    CASE similarity = 0 -> 30
      [] similarity = 20 -> 50
      [] similarity = 40 -> 70
      [] similarity = 61 -> 91
      [] similarity = 80 -> 110
      [] similarity = 100 -> 130

\* similarity += 0.1 (line 425); no sign has both special and curved
AddCurvedBonus(similarity) ==
    CASE similarity = 0 -> 10
      [] similarity = 20 -> 31
      [] similarity = 40 -> 50
      [] similarity = 61 -> 71
      [] similarity = 80 -> 90
      [] similarity = 100 -> 110

\* lines 413-426: the similarity of a hand to an entry of `signs`
Similarity(hand, config) ==
    LET matching == {idx \in 1..5 : hand.fingerStates[idx] = config.fingersUp[idx]}
        basic == MatchScore[Cardinality(matching) + 1]
        special == IF config.special # ""
                      /\ specialConfigurations(hand, config.special)
                   THEN AddSpecialBonus(basic) ELSE basic
        isCurved == SumSeq(hand.fingerStates) > 2
    IN IF config.curved /\ isCurved THEN AddCurvedBonus(special) ELSE special

\* the forEach of lines 411-432 from entry i on
RECURSIVE ScoreSigns(_, _, _, _)
ScoreSigns(hand, i, bestMatch, bestScore) ==
    IF i > Len(signs) THEN bestMatch
    ELSE LET similarity == Similarity(hand, signs[i])
         IN IF similarity > bestScore
            THEN ScoreSigns(hand, i + 1, signs[i].name, similarity)
            ELSE ScoreSigns(hand, i + 1, bestMatch, bestScore)

\* lines 408-432: bestMatch starts at '' and bestScore at 0.3
BestMatch(hand) == ScoreSigns(hand, 1, "", 30)

\* Bound: the hands shown to the camera (bestMatch H, 'I love you' and, by
\* the rounding of 0.6000000000000001 + 0.3 above C's 0.9, F).
HandInputs ==
    {Hand(<<0, 1, 1, 0, 0>>, FALSE, FALSE),
     Hand(<<1, 1, 0, 0, 1>>, FALSE, FALSE),
     Hand(<<0, 0, 1, 1, 1>>, TRUE, FALSE)}

\* the scoring of each of these hands
ScoredHands == [hand \in HandInputs |-> BestMatch(hand)]

NoHand == Hand(<<>>, FALSE, FALSE)

\* What await estimateHands(video) hands back to detectHands: it throws,
\* it finds no hand, or it finds a hand.
DetectionResults ==
    {[outcome |-> "error", hand |-> NoHand], [outcome |-> "none", hand |-> NoHand]}
    \cup {[outcome |-> "hands", hand |-> hand] : hand \in HandInputs}

\* loadModels resolves (lines 144-148): handposeModel.current is set at once,
\* setModelReady(true) waits for the next render.  State updates of an
\* unmounted component are dropped.
ModelLoaded ==
    /\ ~handposeModel
    /\ handposeModel' = TRUE
    /\ signQueued' = IF mounted THEN [signQueued EXCEPT !.modelReady = <<TRUE>>]
                     ELSE signQueued
    /\ UNCHANGED <<modelReady, webcamReady, requestAnimationRef, rafQueue, rafIds,
                   awaiting, detectedSign, lastSignRef, stableCountRef, startEffect,
                   startTimer, restartTimers, mounted>>
    /\ UNCHANGED <<shfVars, vocabVars, limits>>

\* the camera stream has arrived: handleWebcamReady has been called
Streaming == webcamReady \/ signQueued.webcamReady # <<>>

\* handleWebcamReady (lines 212-215), called when the camera stream arrives
handleWebcamReady ==
    /\ mounted
    /\ ~Streaming
    /\ signQueued' = [signQueued EXCEPT !.webcamReady = <<TRUE>>]
    /\ UNCHANGED <<handposeModel, modelReady, webcamReady, requestAnimationRef,
                   rafQueue, rafIds, awaiting, detectedSign, lastSignRef,
                   stableCountRef, startEffect, startTimer, restartTimers, mounted>>
    /\ UNCHANGED <<shfVars, vocabVars, limits>>

\* An animation frame callback runs detectHands up to its first suspension
\* (lines 359-389): not ready, it requests the next frame and returns; ready,
\* it awaits estimateHands.  videoReady is video.readyState === 4, which needs
\* the stream; after the unmount webcamRef.current and canvasRef.current are
\* null.
DetectHandsBegin(cb, videoReady) ==
    /\ cb \in rafQueue
    /\ IF ~handposeModel \/ ~Streaming \/ ~videoReady \/ ~mounted
       THEN /\ RequestFrame(rafQueue \ {cb}, cb.sign, cb.history)
            /\ UNCHANGED awaiting
       ELSE /\ rafQueue' = rafQueue \ {cb}
            /\ awaiting' = awaiting \cup {cb}
            /\ UNCHANGED <<requestAnimationRef, rafIds>>
    /\ UNCHANGED <<handposeModel, modelReady, webcamReady, detectedSign,
                   lastSignRef, stableCountRef, startEffect, startTimer,
                   restartTimers, mounted>>
    /\ UNCHANGED <<shfVars, vocabVars, signQueued, limits>>

\* signHistory.length === 0 || signHistory[signHistory.length - 1] !== bestMatch,
\* on the signHistory of the closure (line 447)
IsNewSign(history, bestMatch) ==
    Len(history) = 0 \/ history[Len(history)] # bestMatch

\* detectHands resumes after await estimateHands (lines 389-485): the scoring,
\* the stability check, the append to the sign history, and the request of
\* the next frame.  The refs are written at once, the state updates wait for
\* the next render; state updates of an unmounted component are dropped.
DetectHandsResume(cb, r) ==
    LET bestMatch == IF r.outcome = "hands" THEN ScoredHands[r.hand] ELSE "" IN
    /\ cb \in awaiting
    /\ awaiting' = awaiting \ {cb}
    /\ RequestFrame(rafQueue, cb.sign, cb.history)
    /\ IF r.outcome = "hands" /\ bestMatch # ""
       THEN IF bestMatch = lastSignRef
            THEN /\ stableCountRef' = stableCountRef + 1
                 /\ lastSignRef' = lastSignRef
                 /\ IF stableCountRef' >= STABILITY_THRESHOLD
                       /\ cb.sign # bestMatch /\ mounted
                    THEN LET updates ==
                                 [signQueued EXCEPT !.detectedSign =
                                     QueueSet(@, detectedSign, bestMatch)]
                         IN IF IsNewSign(cb.history, bestMatch)
                            THEN SetSignHistory(HistoryUpdate(<<bestMatch>>, TRUE),
                                                updates)
                            ELSE signQueued' = updates /\ UNCHANGED signOps
                    ELSE UNCHANGED <<signQueued, signOps>>
            ELSE /\ lastSignRef' = bestMatch
                 /\ stableCountRef' = 1
                 /\ UNCHANGED <<signQueued, signOps>>
       ELSE /\ stableCountRef' = IF r.outcome = "error" THEN stableCountRef ELSE 0
            /\ UNCHANGED <<lastSignRef, signQueued, signOps>>
    /\ UNCHANGED <<signHistory, detectedWord, detectedPhrase, emitted, signEffect>>
    /\ UNCHANGED <<handposeModel, modelReady, webcamReady, detectedSign,
                   startEffect, startTimer, restartTimers, mounted>>
    /\ UNCHANGED <<shfVars, limits>>

\* restartDetection (lines 552-575), a click handler.  It writes refs and
\* starts a timer and sets no state of the component: nothing renders, and
\* an effect that is pending stays pending.
restartDetection ==
    /\ mounted
    /\ RequestFrame(IF requestAnimationRef # 0
                    THEN CancelFrame(rafQueue, requestAnimationRef)
                    ELSE rafQueue,
                    detectedSign, signHistory)
    /\ stableCountRef' = 0
    /\ restartTimers' = restartTimers + 1
    /\ UNCHANGED <<vocabVars, signQueued>>
    /\ UNCHANGED <<handposeModel, modelReady, webcamReady, awaiting, detectedSign,
                   lastSignRef, startEffect, startTimer, mounted>>
    /\ UNCHANGED <<shfVars, limits>>

\* the timeouts of the start effect (lines 201-207): 'H', then 'I'
StartTimerFires ==
    /\ startTimer \in {"H", "I"}
    /\ IF mounted
       THEN SetSignHistory(HistoryUpdate(<<startTimer>>, FALSE), signQueued)
       ELSE UNCHANGED <<signQueued, signOps>>
    /\ startTimer' = IF startTimer = "H" THEN "I" ELSE "done"
    /\ UNCHANGED <<signHistory, detectedWord, detectedPhrase, emitted, signEffect>>
    /\ UNCHANGED <<handposeModel, modelReady, webcamReady, requestAnimationRef,
                   rafQueue, rafIds, awaiting, detectedSign, lastSignRef,
                   stableCountRef, startEffect, restartTimers, mounted>>
    /\ UNCHANGED <<shfVars, limits>>

\* the timeout of restartDetection (lines 567-569)
RestartTimerFires ==
    /\ restartTimers > 0
    /\ restartTimers' = restartTimers - 1
    /\ IF mounted
       THEN SetSignHistory(HistoryUpdate(<<"H", "I">>, FALSE), signQueued)
       ELSE UNCHANGED <<signQueued, signOps>>
    /\ UNCHANGED <<signHistory, detectedWord, detectedPhrase, emitted, signEffect>>
    /\ UNCHANGED <<handposeModel, modelReady, webcamReady, requestAnimationRef,
                   rafQueue, rafIds, awaiting, detectedSign, lastSignRef,
                   stableCountRef, startEffect, startTimer, mounted>>
    /\ UNCHANGED <<shfVars, limits>>

\* The component unmounts: pending effects run, then the cleanup of the mount
\* effect (lines 182-191).  setSignHistory([]) on the unmounting component
\* renders nothing, and the updates that wait are dropped with it.
Unmount ==
    /\ mounted
    /\ mounted' = FALSE
    /\ IF startEffect /\ modelReady /\ webcamReady /\ requestAnimationRef = 0
       THEN /\ rafIds < limits.frames
            /\ rafIds' = rafIds + 1
            /\ startTimer' = "H"
            /\ UNCHANGED <<rafQueue, requestAnimationRef>>
       ELSE /\ IF requestAnimationRef # 0
               THEN /\ rafQueue' = CancelFrame(rafQueue, requestAnimationRef)
                    /\ requestAnimationRef' = 0
               ELSE UNCHANGED <<rafQueue, requestAnimationRef>>
            /\ UNCHANGED <<rafIds, startTimer>>
    /\ startEffect' = FALSE
    /\ emitted' = FlushToasts(signQueued)
    /\ signEffect' = FALSE
    /\ signQueued' = NoSignUpdates
    /\ lastSignRef' = ""
    /\ stableCountRef' = 0
    /\ UNCHANGED <<signHistory, detectedWord, detectedPhrase, signOps>>
    /\ UNCHANGED <<handposeModel, modelReady, webcamReady, awaiting, detectedSign,
                   restartTimers>>
    /\ UNCHANGED <<shfVars, limits>>

NextDetector ==
    \/ ModelLoaded
    \/ handleWebcamReady
    \/ \E cb \in rafQueue, videoReady \in BOOLEAN : DetectHandsBegin(cb, videoReady)
    \/ \E cb \in awaiting, r \in DetectionResults : DetectHandsResume(cb, r)
    \/ restartDetection
    \/ demonstrateWordDetection
    \/ clearSignHistory
    \/ StartTimerFires
    \/ RestartTimerFires
    \/ Unmount
    \/ RenderDetector
    \/ RunEffects

SpecDetector == Init /\ [][NextDetector]_vars

\* the same detector under the bounds of the runs with more history updates
InitHistory == InitComponent /\ InitImage /\ InitDetectorState /\ limits = HistoryLimits

SpecHistory == InitHistory /\ [][NextDetector]_vars

\* the texts of a list found in a sequence, and the first of them
C4_Found(texts, sequence) == {i \in 1..Len(texts) : Includes(sequence, texts[i])}

C4_First(found) == CHOOSE i \in found : \A j \in found : i <= j

C4_PhraseTexts == [i \in 1..Len(conversationPhrases) |-> conversationPhrases[i].text]

\* the toasts of a run of the effect on a history are those the claim names
C4_Emits(history, toasts) ==
    LET sequence == JoinLetters(history)
        phrases  == C4_Found(C4_PhraseTexts, sequence)
        words    == C4_Found(commonWords, sequence)
    IN /\ Len(toasts) <= 1
       /\ phrases # {} =>
             toasts = <<Toast("phrase",
                              conversationPhrases[C4_First(phrases)].meaning)>>
       /\ phrases = {} /\ words # {} =>
             toasts = <<Toast("word", commonWords[C4_First(words)])>>
       /\ phrases = {} /\ words = {} /\ toasts # <<>> =>
             /\ toasts[1].kind = "shortcut"
             /\ Len(history) >= 2
             /\ \/ /\ history[Len(history) - 1] = "H"
                   /\ history[Len(history)] = "I"
                \/ /\ history[Len(history) - 1] = "N"
                   /\ history[Len(history)] = "O"

\* The effect takes any string[]: histories written character by character,
\* a phrase text or nothing followed by a phrase text or a word.
C4_Sequences ==
    LET texts == {conversationPhrases[i].text : i \in 1..Len(conversationPhrases)}
    IN {a \o b : a \in texts \cup {<<>>},
                 b \in texts \cup {commonWords[i] : i \in 1..Len(commonWords)}}

\* on each of them the effect emits what the claim names
C4_OnSequences ==
    \A history \in C4_Sequences :
        C4_Emits(history,
                 VocabularyEffect(history, [word |-> <<>>, phrase |-> "",
                                            toasts |-> <<>>]).toasts)

\* C4: if some phrase text is a substring of the joined sequence, the match
\* emitted is the first such phrase in list order and no word is emitted;
\* otherwise, if some word is a substring, it is the first such word in list
\* order; otherwise a match is emitted only when the last two symbols are
\* exactly HI or NO; a phrase and a word are never both emitted.  This holds
\* of the effect on every sequence of C4_Sequences, and in every state of the
\* detector of the toasts of the effect's run on the current history.
C4_MatchOrder ==
    /\ C4_OnSequences
    /\ (signHistory # <<>> /\ ~signEffect) => C4_Emits(signHistory, emitted)

\* HELLO, HI and I are contained in the history of the demonstration followed
\* by the letters of a restart: the first-listed word, HELLO, is emitted
C4_Witness ==
    /\ signHistory = <<"H", "E", "L", "L", "O", "H", "I">>
    /\ ~signEffect
    /\ emitted = <<Toast("word", <<"H", "E", "L", "L", "O">>)>>

\* the render of the clear action shows an empty word and an empty phrase
C5_ClearStep ==
    clearSignHistory => (detectedWord' = <<>> /\ detectedPhrase' = "")

\* a run of the effect that detects something leaves at most one of word and
\* phrase non-empty, whatever was displayed before
C5_EffectExclusive ==
    \A history \in C4_Sequences :
        \A shown \in {[word |-> <<>>, phrase |-> ""],
                      [word |-> <<"H", "I">>, phrase |-> ""],
                      [word |-> <<>>, phrase |-> "I love you"]} :
            LET run == VocabularyEffect(history, [word |-> shown.word,
                                                  phrase |-> shown.phrase,
                                                  toasts |-> <<>>])
            IN ~(run.word # <<>> /\ run.phrase # "")

\* C5: at most one of the displayed word and the displayed phrase is
\* non-empty: a detected phrase clears the word, a detected word or shortcut
\* clears the phrase, and the clear action empties both.
C5_WordXorPhrase ==
    /\ C5_EffectExclusive
    /\ [](~(detectedWord # <<>> /\ detectedPhrase # ""))
    /\ [][C5_ClearStep]_vars

\* the word of the demonstration was displayed and the clear action has
\* emptied history, word and phrase
C5_Witness ==
    /\ mounted
    /\ signOps > 0
    /\ signHistory = <<>>
    /\ detectedWord = <<>>
    /\ detectedPhrase = ""
    /\ emitted = <<>>
    /\ signQueued.display = <<[word |-> <<"H", "E", "L", "L", "O">>, phrase |-> ""]>>

\* C10 (as claimed): at most one detectHands invocation is in flight, and there
\* is at most one detection loop (a pending callback or a running invocation).
C10_SingleLoop ==
    /\ Cardinality(awaiting) <= 1
    /\ Cardinality(rafQueue) + Cardinality(awaiting) <= 1

\* C11 (as claimed): once detection is stopped (the component is unmounted and
\* its cleanup has run) no further detection iteration is scheduled and no
\* further frame is handed to the model, even if detectHands was awaiting
\* estimateHands at the moment of the stop.
C11_StopStep ==
    ~mounted => /\ rafIds' = rafIds
                /\ awaiting' \subseteq awaiting

C11_StopEndsLoop == [][C11_StopStep]_vars

\* C21 (as claimed): a stably detected sign is appended to the sign history
\* only if the history is empty or its last element differs from that sign, so
\* detection never produces two equal consecutive entries.
C21_Step ==
    (awaiting' # awaiting /\ signOps' # signOps) =>
        LET history == ApplyHistory(signHistory, signQueued.signHistory)
            appended == signQueued'.signHistory[Len(signQueued'.signHistory)].items
        IN \/ history = <<>>
           \/ history[Len(history)] # appended[1]

C21_AppendOnlyNewSign == [][C21_Step]_vars

\* C22 (as claimed): in every reachable state of the detector the sign
\* history holds at most 10 signs.
C22_AtMostTenSigns == Len(signHistory) <= 10

\* the keys of `signs`: the labels detection can append
DetectorLabels == {signs[i].name : i \in 1..Len(signs)}

\* the effect on every history of two labels followed by H, I or N, O finds a
\* word and emits no toast of the fallback
C30_OnEndings ==
    \A a \in DetectorLabels, b \in DetectorLabels :
        \A ending \in {<<"H", "I">>, <<"N", "O">>} :
            LET history == <<a, b>> \o ending
                run == VocabularyEffect(history, [word |-> <<>>, phrase |-> "",
                                                  toasts |-> <<>>])
            IN /\ ScanWords(JoinLetters(history), 1) # 0
               /\ \A k \in 1..Len(run.toasts) : run.toasts[k].kind # "shortcut"

\* C30: the two-symbol fallback never produces a match: whenever the last
\* two symbols of the history are HI or NO, the phrase scan or the word scan
\* has found a text, and no toast comes from the fallback.
C30_ShortcutUnreachable ==
    /\ C30_OnEndings
    /\ (Len(signHistory) >= 2
          /\ LastTwo(signHistory) \in {<<"H", "I">>, <<"N", "O">>}) =>
              \/ ScanPhrases(JoinLetters(signHistory), 1) # 0
              \/ ScanWords(JoinLetters(signHistory), 1) # 0
    /\ \A k \in 1..Len(emitted) : emitted[k].kind # "shortcut"

\* the timers of the start effect have appended H and I: the word scan has
\* found HI and the toast is that of the word list
C30_Witness ==
    /\ startTimer = "done"
    /\ signHistory = <<"H", "I">>
    /\ LastTwo(signHistory) = <<"H", "I">>
    /\ detectedWord = <<"H", "I">>
    /\ emitted = <<Toast("word", <<"H", "I">>)>>

UpperCase ==
    {"A", "B", "C", "D", "E", "F", "G", "H", "I", "J", "K", "L", "M", "N", "O",
     "P", "Q", "R", "S", "T", "U", "V", "W", "X", "Y", "Z"}

\* a space followed by an upper-case letter occurs in the characters
C28_SpaceThenUpper(chars) ==
    \E k \in 1..(Len(chars) - 1) : chars[k] = " " /\ chars[k + 1] \in UpperCase

\* the characters of two labels joined hold no space followed by an upper-case
\* letter, whichever two keys of `signs` they are
C28_OnLabels ==
    \A a \in DetectorLabels, b \in DetectorLabels :
        ~C28_SpaceThenUpper(Chars(a) \o Chars(b))

\* C28: every phrase text contains a space followed by an upper-case letter;
\* the characters of two labels joined never do, whichever two keys of
\* `signs` they are, and so no joined history of labels does; the joined
\* history of the detector holds labels only and no phrase is found in it:
\* the phrase branch does not fire and detectedPhrase stays empty.
C28_NoPhraseFromLabels ==
    /\ \A i \in 1..Len(conversationPhrases) :
           C28_SpaceThenUpper(conversationPhrases[i].text)
    /\ C28_OnLabels
    /\ \A k \in 1..Len(signHistory) : signHistory[k] \in DetectorLabels
    /\ ~C28_SpaceThenUpper(JoinLetters(signHistory))
    /\ ScanPhrases(JoinLetters(signHistory), 1) = 0
    /\ \A k \in 1..Len(emitted) : emitted[k].kind # "phrase"
    /\ detectedPhrase = ""

\* the label 'I love you' has been detected and appended: the word I is
\* found in it, no phrase
C28_Witness ==
    /\ signHistory = <<"I love you">>
    /\ detectedWord = <<"I">>
    /\ detectedPhrase = ""
    /\ emitted = <<Toast("word", <<"I">>)>>

\* the words of the list that contain an earlier word of the list
C29_Shadowed ==
    {commonWords[i] : i \in {j \in 1..Len(commonWords) :
        \E e \in 1..(j - 1) : Includes(commonWords[j], commonWords[e])}}

\* histories of labels that spell a shadowed word, alone or with one more
\* label before or after it
C29_Histories ==
    LET spelled == {word \in C29_Shadowed : \A k \in 1..Len(word) : word[k] \in UpperCase}
    IN spelled
       \cup {<<a>> \o word : a \in DetectorLabels, word \in spelled}
       \cup {Append(word, b) : b \in DetectorLabels, word \in spelled}

\* on each of them the effect shows and toasts a word that is not shadowed
C29_OnHistories ==
    \A history \in C29_Histories :
        LET run == VocabularyEffect(history, [word |-> <<>>, phrase |-> "",
                                              toasts |-> <<>>])
        IN /\ run.word # <<>>
           /\ run.word \notin C29_Shadowed
           /\ \A k \in 1..Len(run.toasts) : run.toasts[k].text \notin C29_Shadowed

\* C29: a word that contains an earlier-listed word is never emitted: neither
\* NOW, YOUR, YESTERDAY, FRIEND, FAMILY, SISTER, TIRED, SICK, FINE nor
\* DRINK is ever the detected word or the text of a word toast, on the
\* histories that spell them and in every state of the detector.
C29_ShadowedNeverEmitted ==
    /\ {<<"N", "O", "W">>, <<"Y", "O", "U", "R">>,
         <<"Y", "E", "S", "T", "E", "R", "D", "A", "Y">>,
         <<"F", "R", "I", "E", "N", "D">>, <<"F", "A", "M", "I", "L", "Y">>,
         <<"S", "I", "S", "T", "E", "R">>, <<"T", "I", "R", "E", "D">>,
         <<"S", "I", "C", "K">>, <<"F", "I", "N", "E">>,
         <<"D", "R", "I", "N", "K">>} \subseteq C29_Shadowed
    /\ C29_OnHistories
    /\ detectedWord \notin C29_Shadowed
    /\ \A k \in 1..Len(emitted) :
           emitted[k].kind = "word" => emitted[k].text \notin C29_Shadowed

\* the timers of the start effect and of a restart have appended H, I, H, I:
\* HI and the later-listed I are contained, HI is shown
C29_Witness ==
    /\ signHistory = <<"H", "I", "H", "I">>
    /\ detectedWord = <<"H", "I">>
    /\ emitted = <<Toast("word", <<"H", "I">>)>>

(***************************************************************************)
(* The image stages of one processFrame call, driven on their own.  A run  *)
(* starts when the skin mask of the frame has been computed (line 231),    *)
(* with processing started and one of the threshold presets chosen, and    *)
(* applies the stages in the order of lines 235-268: the features and the  *)
(* gesture are computed for a blob that passes the size gate of line 242.  *)
(***************************************************************************)
\* Bounds: the grid whose masks are all enumerated.
GridWidth == 3
GridHeight == 3

GridMasks ==
    {[width |-> GridWidth, height |-> GridHeight, data |-> d] :
        d \in [1..(GridWidth * GridHeight) -> {0, 1}]}

\* the mask whose foreground is the union of the rectangles
\* <<left, top, right, bottom>>
RectMask(width, height, rects) ==
    [width |-> width, height |-> height,
     data |-> [i \in 1..(width * height) |->
                 LET x == (i - 1) % width
                     y == (i - 1) \div width
                 IN IF \E r \in rects : /\ r[1] <= x /\ x <= r[3]
                                        /\ r[2] <= y /\ y <= r[4]
                    THEN 1 ELSE 0]]

\* Every arrangement of blocks of 3 x 3 skin pixels in a grid of 3 x 3 blocks,
\* inside a border one pixel wide: canvases of 11 x 11.  The filter leaves
\* blocks that touch along a side connected and blocks that touch at a corner
\* apart.
BlockMasks ==
    {[width |-> 11, height |-> 11,
      data |-> [i \in 1..121 |->
                  LET x == (i - 1) % 11
                      y == (i - 1) \div 11
                  IN IF x \in 1..9 /\ y \in 1..9
                     THEN blocks[((y - 1) \div 3) * 3 + ((x - 1) \div 3) + 1]
                     ELSE 0]] :
        blocks \in [1..9 -> {0, 1}]}

\* 5x5: a border of 0s around a 3x3 block of 1s
MajorityExample ==
    [width |-> 5, height |-> 5,
     data |-> <<0, 0, 0, 0, 0,
                0, 1, 1, 1, 0,
                0, 1, 1, 1, 0,
                0, 1, 1, 1, 0,
                0, 0, 0, 0, 0>>]

\* 19x22: skin rectangles of 9 x 6 and 17 x 12, two rows apart.  The filter
\* removes the four corners of each: regions of 50 and of 200 pixels.
TwoRegions == RectMask(19, 22, {<<1, 1, 9, 6>>, <<1, 9, 17, 20>>})

\* a frame that is skin all over; the filter clears its border
FullFrame(width, height) ==
    RectMask(width, height, {<<0, 0, width - 1, height - 1>>})

\* Frames that are skin all over.  32 x 52 gives a blob of exactly 1500
\* pixels.  In the frame 10 pixels wide no pixel index of the blob is a
\* multiple of 10: the hull is empty.
FullFrames ==
    {FullFrame(size[1], size[2]) :
        size \in {<<32, 52>>, <<41, 41>>, <<39, 43>>, <<43, 41>>, <<45, 37>>,
                  <<28, 63>>, <<20, 86>>, <<10, 190>>}}

\* the lengths of the four fingers of the hand shapes
HandShapes ==
    {<<28, 28, 28, 28>>, <<28, 0, 0, 0>>, <<0, 28, 28, 0>>, <<14, 28, 28, 14>>,
     <<28, 28, 0, 0>>, <<4, 14, 18, 20>>}

\* A palm of 40 x 28 pixels with four fingers 7 pixels wide, each folded or
\* stretched 14 or 28 pixels, on a canvas of 52 x 64.
HandMask(fingers) ==
    RectMask(52, 64,
             {<<6, 34, 45, 61>>}
             \cup {<<11 * k - 5, 34 - fingers[k], 11 * k + 1, 33>> : k \in 1..4})

HandMasks == {HandMask(fingers) : fingers \in HandShapes}

\* Five rows of a frame 1280 pixels wide: a full row of skin between two
\* rows with skin at every third pixel.  The filter keeps the middle row.
LineMask ==
    [width |-> 1280, height |-> 5,
     data |-> [i \in 1..6400 |->
                 LET x == (i - 1) % 1280
                     y == (i - 1) \div 1280
                 IN IF y = 2 \/ (y \in {1, 3} /\ x % 3 = 0) THEN 1 ELSE 0]]

\* Every mask is processed with the normal thresholds; the masks whose blob
\* is near a size gate are processed with the other presets too.
ImageInputs ==
    {[mask |-> m, thresholds |-> NormalThresholds] :
        m \in GridMasks \cup BlockMasks \cup FullFrames \cup HandMasks
              \cup {MajorityExample, TwoRegions, LineMask}}
    \cup {[mask |-> m, thresholds |-> th] :
             m \in {FullFrame(32, 52), LineMask},
             th \in {BrightThresholds, DimThresholds}}

InitImageInputs ==
    /\ \E input \in ImageInputs :
          /\ canvas = [width |-> input.mask.width, height |-> input.mask.height]
          /\ skinMask = input.mask.data
          /\ thresholds = input.thresholds
    /\ isProcessing = TRUE
    /\ denoisedMask = <<>>
    /\ handRegion = EmptyBlob
    /\ frameHull = <<>>
    /\ handFeatures = NoFeatures
    /\ frameGesture = NullGesture
    /\ imageStage = "mask"

\* line 235
ApplySpatialFilter ==
    /\ imageStage = "mask"
    /\ denoisedMask' = applySpatialFilter(skinMask, canvas.width, canvas.height)
    /\ imageStage' = "denoised"
    /\ UNCHANGED <<canvas, skinMask, handRegion, frameHull, handFeatures, frameGesture>>
    /\ UNCHANGED <<coreVars, detVars>>

\* line 238
FindLargestBlob ==
    /\ imageStage = "denoised"
    /\ handRegion' = findLargestBlob(denoisedMask, canvas.width, canvas.height)
    /\ imageStage' = "blob"
    /\ UNCHANGED <<canvas, skinMask, denoisedMask, frameHull, handFeatures, frameGesture>>
    /\ UNCHANGED <<coreVars, detVars>>

\* lines 242-243: the features of a blob that passes the size gate
CalculateHandFeatures ==
    /\ imageStage = "blob"
    /\ HandDetected(handRegion.size, thresholds)
    /\ \E points \in calculateSimplifiedHull(handRegion, canvas.width) :
          /\ frameHull' = points
          /\ handFeatures' = calculateHandFeatures(handRegion, canvas.width,
                                                   canvas.height, points)
    /\ imageStage' = "features"
    /\ UNCHANGED <<canvas, skinMask, denoisedMask, handRegion, frameGesture>>
    /\ UNCHANGED <<coreVars, detVars>>

\* line 246
IdentifyGesture ==
    /\ imageStage = "features"
    /\ frameGesture' = identifyGesture(handFeatures)
    /\ imageStage' = "gesture"
    /\ UNCHANGED <<canvas, skinMask, denoisedMask, handRegion, frameHull, handFeatures>>
    /\ UNCHANGED <<coreVars, detVars>>

\* lines 249-260, the rest of the callback for the gesture of line 246: the
\* label is pushed into the history, setCurrentGesture is queued, and a
\* stable letter is offered to addLetterToWord
StabilizeGesture ==
    /\ imageStage = "gesture"
    /\ IF frameGesture # NullGesture
       THEN /\ gestureHistory' = updateGestureHistory(gestureHistory,
                                                      frameGesture.name)
            /\ sinceNoHand' = updateGestureHistory(sinceNoHand, frameGesture.name)
            /\ stableGesture' = getStableGesture(gestureHistory')
            /\ LET updates == [queued EXCEPT !.currentGesture = <<frameGesture>>]
               IN IF stableGesture' # Null /\ ~closureCooldown
                     /\ IsValidLetter(stableGesture')
                  THEN addLetterToWord(stableGesture', updates)
                  ELSE queued' = updates /\ UNCHANGED accVars
       ELSE /\ stableGesture' = Null
            /\ UNCHANGED <<gestureHistory, queued, sinceNoHand, accVars>>
    /\ unrendered' = Unrendered(queued')
    /\ imageStage' = "pushed"
    /\ UNCHANGED <<canvas, skinMask, denoisedMask, handRegion, frameHull,
                   handFeatures, frameGesture>>
    /\ UNCHANGED <<stateVars, wordEffect, now, isProcessing, thresholds,
                   closureCooldown, frames, lastFrame, switches>>
    /\ UNCHANGED detVars

\* lines 265-268: the blob does not pass the size gate, the frame has no
\* gesture and setCurrentGesture(null) is queued
NoHandDetected ==
    /\ imageStage = "blob"
    /\ ~HandDetected(handRegion.size, thresholds)
    /\ frameGesture' = NullGesture
    /\ queued' = [queued EXCEPT !.currentGesture =
                                    QueueSet(@, currentGesture, NullGesture)]
    /\ unrendered' = Unrendered(queued')
    /\ stableGesture' = Null
    /\ sinceNoHand' = <<>>
    /\ imageStage' = "nohand"
    /\ UNCHANGED <<canvas, skinMask, denoisedMask, handRegion, frameHull, handFeatures>>
    /\ UNCHANGED <<gestureHistory, accVars, stateVars, wordEffect, now,
                   isProcessing, thresholds, closureCooldown, frames, lastFrame,
                   switches>>
    /\ UNCHANGED detVars

NextImage ==
    \/ ApplySpatialFilter
    \/ FindLargestBlob
    \/ CalculateHandFeatures
    \/ IdentifyGesture
    \/ StabilizeGesture
    \/ NoHandDetected

InitOnMasks == InitSession /\ InitImageInputs /\ InitDetector

SpecImage == InitOnMasks /\ [][NextImage]_vars

\* the blob stage has run
BlobComputed ==
    imageStage \in {"blob", "features", "gesture", "pushed", "nohand"}

\* the pixel indices 4-adjacent to idx inside the canvas
AdjacentPixels(idx, width, height) ==
    LET x == idx % width
        y == idx \div width
    IN {y * width + nx : nx \in {x - 1, x + 1} \cap (0..(width - 1))}
       \cup {ny * width + x : ny \in {y - 1, y + 1} \cap (0..(height - 1))}

\* the foreground pixels of a mask
Foreground(mask) == {idx \in 0..(Len(mask) - 1) : mask[idx + 1] = 1}

\* the foreground pixels adjacent to the frontier are added to the region,
\* `count` times, one half of the times after the other; nothing is left to
\* add once the frontier is empty
RECURSIVE GrowTimes(_, _, _, _, _)
GrowTimes(mask, width, height, count, st) ==
    IF count = 1 \/ st.frontier = {}
    THEN LET next == {q \in UNION {AdjacentPixels(p, width, height) :
                                      p \in st.frontier} :
                         mask[q + 1] = 1 /\ q \notin st.region}
         IN [region |-> st.region \cup next, frontier |-> next]
    ELSE GrowTimes(mask, width, height, count - count \div 2,
                   GrowTimes(mask, width, height, count \div 2, st))

\* the 4-connected foreground region around `region`, grown from `frontier`
\* until nothing is added, `count` times and then twice as many
RECURSIVE GrowRegion(_, _, _, _, _, _)
GrowRegion(mask, width, height, count, region, frontier) ==
    IF frontier = {} THEN region
    ELSE LET grown == GrowTimes(mask, width, height, count,
                                [region |-> region, frontier |-> frontier])
         IN GrowRegion(mask, width, height, 2 * count, grown.region,
                       grown.frontier)

\* the 4-connected components of the pixels in `rest`
RECURSIVE ComponentsOf(_, _, _, _)
ComponentsOf(mask, width, height, rest) ==
    IF rest = {} THEN {}
    ELSE LET first == Min(rest)
             comp == GrowRegion(mask, width, height, 1, {first}, {first})
         IN {comp} \cup ComponentsOf(mask, width, height, rest \ comp)

Members(blob) == {blob.pixels[i] : i \in 1..Len(blob.pixels)}

\* C14 (as claimed): for a blob whose bounding box has height 0 the pipeline
\* returns no gesture rather than a label, and no label is pushed into the
\* history for that frame.
C14_ZeroHeightNoGesture ==
    (imageStage = "pushed" /\ handRegion.size > 0 /\ handFeatures.height = 0)
        => frameGesture = NullGesture /\ gestureHistory = <<>>

\* C15: findLargestBlob returns a 4-connected foreground component of maximum
\* size; among components of that size, the one whose first pixel comes first
\* in raster order; for a mask without foreground, the empty blob of size 0.
C15_LargestComponent ==
    BlobComputed =>
        LET comps == ComponentsOf(denoisedMask, canvas.width, canvas.height,
                                  Foreground(denoisedMask))
            members == Members(handRegion)
        IN IF comps = {}
           THEN handRegion.size = 0 /\ handRegion.pixels = <<>>
           ELSE /\ members \in comps
                /\ handRegion.size = Cardinality(members)
                /\ \A c \in comps :
                      /\ Cardinality(c) <= Cardinality(members)
                      /\ Cardinality(c) = Cardinality(members)
                            => Min(members) <= Min(c)

\* The filter has left a plus of 5 pixels of each of the two upper corner
\* blocks: two components of the same size, the one that starts first in
\* raster order is returned
C15_Witness ==
    /\ imageStage = "blob"
    /\ canvas = [width |-> 11, height |-> 11]
    /\ Foreground(denoisedMask) = {13, 23, 24, 25, 35} \cup {19, 29, 30, 31, 41}
    /\ handRegion.pixels = <<13, 24, 25, 23, 35>>

\* C16: the reported blob is exactly one maximal 4-connected region: members
\* are foreground, foreground neighbours of members are members, no index is
\* listed twice, size is the number of members, the centroid is the mean of
\* the members' coordinates; for regions of 50 and 200 pixels the result is
\* the region of 200 with its centroid.
C16_ExactRegion ==
    BlobComputed =>
        LET members == Members(handRegion)
            n == Len(handRegion.pixels)
        IN /\ \A p \in members : denoisedMask[p + 1] = 1
           /\ \A p \in members :
                 \A q \in AdjacentPixels(p, canvas.width, canvas.height) :
                    denoisedMask[q + 1] = 1 => q \in members
           /\ n > 0 => members = GrowRegion(denoisedMask, canvas.width,
                                            canvas.height, 1,
                                            {handRegion.pixels[1]},
                                            {handRegion.pixels[1]})
           /\ Cardinality(members) = n
           /\ handRegion.size = n
           /\ n > 0 =>
                 /\ handRegion.centroid.x =
                       <<SumSeq([i \in 1..n |-> handRegion.pixels[i] % canvas.width]), n>>
                 /\ handRegion.centroid.y =
                       <<SumSeq([i \in 1..n |-> handRegion.pixels[i] \div canvas.width]), n>>
           /\ skinMask = TwoRegions.data =>
                 /\ Cardinality(Foreground(denoisedMask)) = 250
                 /\ handRegion.size = 200
                 /\ members = {y * 19 + x : x \in 1..17, y \in 9..20}
                                 \ {9 * 19 + 1, 9 * 19 + 17, 20 * 19 + 1, 20 * 19 + 17}
                 /\ handRegion.centroid.x[1] = 9 * 200
                 /\ 2 * handRegion.centroid.y[1] = 29 * 200

\* the filtered mask holds the regions of 50 and of 200 pixels
C16_Witness ==
    /\ imageStage = "blob"
    /\ skinMask = TwoRegions.data
    /\ handRegion.size = 200

\* C25: the raster scan with its flood fills ends on every mask, having
\* enqueued and dequeued each foreground pixel exactly once and no other
\* pixel, so the number of dequeues is at most width * height.
C25_EachPixelOnce ==
    BlobComputed =>
        LET scan == ScanDequeued(denoisedMask, canvas.width, canvas.height,
                                 0, {}, <<>>)
            n == Len(scan.order)
        IN /\ {scan.order[i] : i \in 1..n} = Foreground(denoisedMask)
           /\ n = Cardinality(Foreground(denoisedMask))
           /\ scan.visited = Foreground(denoisedMask)
           /\ n <= canvas.width * canvas.height

\* the scan has run on the filtered mask with two regions: 250 dequeues for
\* 250 foreground pixels out of 418
C25_Witness ==
    /\ imageStage = "blob"
    /\ skinMask = TwoRegions.data
    /\ Len(ScanDequeued(denoisedMask, canvas.width, canvas.height,
                        0, {}, <<>>).order) = 250

\* C17: every interior pixel of the output is 1 iff at least 5 of the 9 input
\* cells of its 3x3 neighbourhood are 1; every border pixel of the output is
\* 0; for the 5x5 mask with an all-1 3x3 interior the output is 1 at the
\* centre and the four edge-middle interior cells and 0 at the interior corners.
C17_MajorityFilter ==
    (imageStage # "mask" /\ Len(skinMask) = canvas.width * canvas.height
     /\ Len(skinMask) > 0) =>
        /\ \A idx \in 0..(Len(skinMask) - 1) :
              LET x == idx % canvas.width
                  y == idx \div canvas.width
              IN IF x \in 1..(canvas.width - 2) /\ y \in 1..(canvas.height - 2)
                 THEN (denoisedMask[idx + 1] = 1) <=>
                         Cardinality({d \in (-1..1) \X (-1..1) :
                             skinMask[(y + d[2]) * canvas.width + x + d[1] + 1] = 1})
                         >= 5
                 ELSE denoisedMask[idx + 1] = 0
        /\ \A i \in 1..Len(denoisedMask) : denoisedMask[i] \in {0, 1}
        /\ skinMask = MajorityExample.data =>
              denoisedMask = <<0, 0, 0, 0, 0,
                               0, 0, 1, 0, 0,
                               0, 1, 1, 1, 0,
                               0, 0, 1, 0, 0,
                               0, 0, 0, 0, 0>>

C17_Witness ==
    /\ imageStage = "denoised"
    /\ skinMask = MajorityExample.data
    /\ denoisedMask[13] = 1
    /\ denoisedMask[7] = 0

\* C20: the finger count of the features is an integer in 1..5: the number
\* of 30-degree bins holding more than one of the kept far points, raised to
\* at least 1 and lowered to at most 5.
C20_FingerCount ==
    imageStage \in {"features", "gesture", "pushed"} =>
        LET kept == CHOOSE k \in 0..Len(frameHull) :
                        /\ 10 * k >= 3 * Len(frameHull)
                        /\ 10 * (k - 1) < 3 * Len(frameHull)
            bins == {b \in 0..11 :
                        Cardinality({i \in 1..kept :
                            PointBin(handRegion, frameHull[i]) = b}) > 1}
            count == Cardinality(bins)
        IN /\ handFeatures.fingerCount \in 1..5
           /\ handFeatures.fingerCount =
                 IF count < 1 THEN 1 ELSE IF count > 5 THEN 5 ELSE count

\* the blob of the frame of 41 x 41: two bins hold two far points each
C20_Witness ==
    /\ imageStage = "features"
    /\ skinMask = FullFrame(41, 41).data
    /\ handRegion.size > thresholds.blobMinSize
    /\ Len(frameHull) = 20
    /\ handFeatures.fingerCount = 2

\* the blob of the frame 10 pixels wide: no hull point, no bin, one finger
C20_ClampWitness ==
    /\ imageStage = "features"
    /\ handRegion.size > thresholds.blobMinSize
    /\ frameHull = <<>>
    /\ handFeatures.fingerCount = 1

\* C27: the finger count computed from a blob is never above 3, because at
\* most 20 hull points are kept and at most 6 of them are far points; the
\* gesture identified from computed features is one of A, D, L, K, V, W and
\* never B, Y, I LOVE YOU or ?.
C27_AtMostThreeFingers ==
    /\ imageStage \in {"features", "gesture", "pushed"} =>
          /\ Len(frameHull) <= 20
          /\ FarPointCount(Len(frameHull)) <= 6
          /\ handFeatures.fingerCount <= 3
    /\ imageStage \in {"gesture", "pushed"} =>
          frameGesture.name \in {"A", "D", "L", "K", "V", "W"}
    /\ imageStage = "pushed" =>
          /\ gestureHistory = <<frameGesture.name>>
          /\ Latest(queued.currentGesture, currentGesture) = frameGesture
          /\ queued.detectedLetters = <<>>

\* the blob of the frame of 43 x 41: 20 hull points, 6 far points, three bins
\* with two points each: W
C27_Witness ==
    /\ imageStage = "pushed"
    /\ gestureHistory = <<"W">>
    /\ skinMask = FullFrame(43, 41).data
    /\ handRegion.size > thresholds.blobMinSize
    /\ Len(frameHull) = 20
    /\ handFeatures.fingerCount = 3
    /\ frameGesture.name = "W"

(***************************************************************************)
(* identifyGesture driven on its own, over the HandFeatures interface.     *)
(***************************************************************************)
\* Bounds: the finger counts and the bounding box extents fed to it.
MaxFingerInput == 6
MaxExtent == 10

FeatureInputs ==
    {Features(fc, w, h) : fc \in 0..MaxFingerInput, w \in 0..MaxExtent,
                          h \in 0..MaxExtent}

InitClassifierInputs ==
    /\ canvas = [width |-> 0, height |-> 0]
    /\ skinMask = <<>>
    /\ denoisedMask = <<>>
    /\ handRegion = EmptyBlob
    /\ frameHull = <<>>
    /\ handFeatures \in FeatureInputs
    /\ frameGesture = NullGesture
    /\ imageStage = "features"

NextClassifier == IdentifyGesture

InitOnFeatures == InitComponent /\ InitClassifierInputs /\ InitDetector

SpecClassifier == InitOnFeatures /\ [][NextClassifier]_vars

\* C18: identifyGesture is a fixed lookup: 1 finger gives A when aspectRatio <
\* 0.8 and D otherwise; 2 give L when aspectRatio > 1.2, K when aspectRatio <
\* 0.9, V otherwise; 3 give W; 4 give B; 5 give Y when width > 1.2 * height and
\* I LOVE YOU otherwise; the confidence is the constant of the rule (A 0.7,
\* D 0.6, L 0.8, K 0.7, V 0.75, W 0.8, B 0.85, Y 0.9, I LOVE YOU 0.8, ? 0.5),
\* within [0.5, 0.9].
C18_Confidence ==
    [name \in {"A", "D", "L", "K", "V", "W", "B", "Y", "I LOVE YOU", "?"} |->
        CASE name = "A" -> 70 [] name = "D" -> 60 [] name = "L" -> 80
          [] name = "K" -> 70 [] name = "V" -> 75 [] name = "W" -> 80
          [] name = "B" -> 85 [] name = "Y" -> 90 [] name = "I LOVE YOU" -> 80
          [] name = "?" -> 50]

\* aspectRatio < num / 10 and aspectRatio > num / 10 for aspectRatio = w / h
\* (Infinity for h = 0 < w, NaN for w = h = 0)
C18_Less(w, h, num) == h > 0 /\ 10 * w < num * h
C18_More(w, h, num) == (h > 0 /\ 10 * w > num * h) \/ (h = 0 /\ w > 0)

C18_Name(fc, w, h) ==
    CASE fc = 1 -> IF C18_Less(w, h, 8) THEN "A" ELSE "D"
      [] fc = 2 -> IF C18_More(w, h, 12) THEN "L"
                   ELSE IF C18_Less(w, h, 9) THEN "K" ELSE "V"
      [] fc = 3 -> "W"
      [] fc = 4 -> "B"
      [] fc = 5 -> IF 10 * w > 12 * h THEN "Y" ELSE "I LOVE YOU"
      [] OTHER -> "?"

C18_FixedLookup ==
    (imageStage = "gesture" /\ handFeatures.fingerCount >= 1) =>
        /\ frameGesture.name =
              C18_Name(handFeatures.fingerCount, handFeatures.width,
                       handFeatures.height)
        /\ frameGesture.confidence = C18_Confidence[frameGesture.name]
        /\ frameGesture.confidence \in 50..90

\* one finger at aspectRatio exactly 0.8: the rule gives D
C18_Witness ==
    /\ imageStage = "gesture"
    /\ handFeatures = Features(1, 4, 5)
    /\ frameGesture = [name |-> "D", confidence |-> 60]

====
